---- MODULE Spec2Model ----
(***************************************************************************)
(* Model of the AI Memory Hub dashboard: the context panel's cross-        *)
(* reference resolver (contextPanel.js), the insight loaders               *)
(* (AnchorsModule.loadData, InsightsModule.loadData), the pending-insight  *)
(* computation and the anchor similarity detector.                         *)
(*                                                                         *)
(* JavaScript strings are modelled as sequences of one-character strings,  *)
(* so that String.prototype.includes and split are computed, not assumed.  *)
(* JavaScript values whose type matters are tagged records                 *)
(* [kind |-> ..., val |-> ...].                                            *)
(***************************************************************************)
EXTENDS Integers, Sequences, FiniteSets, TLC

VARIABLES
    insights,        \* InsightsModule.insights (getAllInsights)
    conversations,   \* ConversationsModule.conversations: Map keys in insertion order
    panelTitle,      \* ContextPanel.title.textContent
    panelContent,    \* ContextPanel.content children, in order
    panelVisible,    \* ContextPanel.panel has class 'visible'
    pinned,          \* ContextPanel.pinned
    hideTimeout,     \* ContextPanel.hideTimeout is pending
    mouseInPanel,    \* the pointer is over #context-panel
    lastCall,        \* the last handler run, its arguments and how it ended
    insightsResp,    \* what fetch of state/insights/insights.json answers
    fallbackResp,    \* what fetch of ai-insight-synthesizer/state/insights.json answers
    anchorsResp,     \* what fetch of anchors.json answers
    rejectedResp,    \* what fetch of rejected-insights.json answers
    syncResp,        \* what fetch of sync-status.json answers
    archiveResps,    \* what fetch of each archive file answers, by relative path
    anchors,         \* AnchorsModule.anchors
    anchorsInsights, \* AnchorsModule.insights
    rejected,        \* AnchorsModule.rejected
    pendingInsights, \* AnchorsModule.pendingInsights
    similar,         \* the last result of AnchorsModule.findSimilarAnchors
    cloud,           \* the topic tags of the topic cloud: topic and font size
    searchInput,     \* value of #insights-search-input
    categoryFilter,  \* value of #category-filter
    sourceFilter,    \* value of #source-filter
    tableRows,       \* the insights the table shows, which its headers sort
    currentSortColumn,    \* InsightsModule.currentSortColumn
    currentSortDirection, \* InsightsModule.currentSortDirection
    markedHeader,         \* the header that carries the direction class, and the class
    conversationRecords,  \* the values of ConversationsModule.conversations, by id
    conversationItems,    \* the ids listed in #conversation-items
    appStep,              \* how far AIMemoryHub.init has come
    currentTab,           \* AIMemoryHub.currentTab
    activeTab,            \* the tab whose button and content carry the class 'active'
    conversationsModule,  \* AIMemoryHub.conversationsModule: null, loading its data, ready
    insightsModule,       \* AIMemoryHub.insightsModule: null, loading its data, ready
    initRender,           \* the render option of the call of InsightsModule.init
    switchPending,        \* the tabs whose switchTab awaits the init it started
    isRendered,           \* InsightsModule.isRendered
    renderedViews,        \* what the views of the insights tab show, and from when
    constructions,        \* how many times each module was constructed
    initCalls,            \* how many times init of each module was called
    currentView,          \* AnchorsModule.currentView
    reviewIndex,          \* AnchorsModule.reviewIndex
    reviewDecisions,      \* AnchorsModule.reviewDecisions
    advanceTimers,        \* pending setTimeout(() => this.navigateReview(1))
    overviewListeners,    \* click listeners of attachEventListeners on the container
    reviewListeners,      \* click listeners of attachReviewListeners on the container
    keyHandlers,          \* keydown listeners of setupKeyboardShortcuts on document
    keyHandler,           \* AnchorsModule.keyHandler is set
    container,            \* what container.innerHTML shows: the overview or a review card
    summary,              \* the last summary alert: its kind and its three counts
    dispatch              \* the event being dispatched and the listeners still to run

resolverVars == <<insights, conversations>>
panelVars == <<panelTitle, panelContent, panelVisible, pinned, hideTimeout,
               mouseInPanel>>
fetchVars == <<insightsResp, fallbackResp, anchorsResp, rejectedResp,
               syncResp, archiveResps>>
anchorsVars == <<anchors, anchorsInsights, rejected, pendingInsights>>
tableVars == <<searchInput, categoryFilter, sourceFilter, tableRows,
               currentSortColumn, currentSortDirection, markedHeader>>
viewVars == <<cloud, tableVars>>
appVars == <<conversationRecords, conversationItems, appStep>>
tabVars == <<currentTab, activeTab, conversationsModule, insightsModule, initRender,
             switchPending, isRendered, renderedViews, constructions, initCalls>>
reviewVars == <<currentView, reviewIndex, reviewDecisions, advanceTimers,
                overviewListeners, reviewListeners, keyHandlers, keyHandler,
                container, summary, dispatch>>
vars == <<insights, conversations, panelTitle, panelContent, panelVisible,
          pinned, hideTimeout, mouseInPanel, lastCall, insightsResp, fallbackResp,
          anchorsResp, rejectedResp, anchors, anchorsInsights, rejected,
          pendingInsights, similar, cloud, searchInput, categoryFilter,
          sourceFilter, tableRows, currentSortColumn, currentSortDirection,
          syncResp, archiveResps, conversationRecords, conversationItems,
          appStep, markedHeader, tabVars, reviewVars>>

----------------------------------------------------------------------------
(* Bounds of the model *)

MaxInsights == 6
MaxEvidence == 6
MaxShortEvidence == 2
MaxConvs == 2
MaxRecords == 3
MaxAnchors == 2
MaxRejected == 1
MaxSimilarAnchors == 3
MaxCloudInsights == 4
MaxTableInsights == 3

----------------------------------------------------------------------------
(* Strings *)

\* String.prototype.includes: t occurs in s as a contiguous run ("" always does)
Includes(s, t) ==
    \E i \in 0..(Len(s) - Len(t)) : SubSeq(s, i + 1, i + Len(t)) = t

\* position of the first occurrence of character c in s, 0 when there is none
RECURSIVE IndexOf(_, _, _)
IndexOf(s, c, from) ==
    IF from > Len(s) THEN 0
    ELSE IF s[from] = c THEN from
    ELSE IndexOf(s, c, from + 1)

\* String.prototype.split(sep) for a one-character separator
RECURSIVE Split(_, _)
Split(s, sep) ==
    LET i == IndexOf(s, sep, 1)
    IN  IF i = 0 THEN <<s>>
        ELSE <<SubSeq(s, 1, i - 1)>> \o Split(SubSeq(s, i + 1, Len(s)), sep)

\* Array.prototype.join(sep)
RECURSIVE Join(_, _)
Join(parts, sep) ==
    IF Len(parts) = 0 THEN <<>>
    ELSE IF Len(parts) = 1 THEN parts[1]
    ELSE parts[1] \o <<sep>> \o Join(Tail(parts), sep)

\* Array.prototype.slice(0, n)
Slice0(seq, n) == SubSeq(seq, 1, IF Len(seq) < n THEN Len(seq) ELSE n)

Range(seq) == {seq[i] : i \in 1..Len(seq)}

----------------------------------------------------------------------------
(* JavaScript values *)

Undefined == [kind |-> "undefined", val |-> <<>>]
Str(chars) == [kind |-> "string", val |-> chars]
Arr(elems) == [kind |-> "array", val |-> elems]
Obj == [kind |-> "object", val |-> <<>>]
\* an object: its own properties as <<name, value>> pairs in insertion order
JObj(entries) == [kind |-> "object", val |-> entries]
JNull == [kind |-> "null", val |-> <<>>]
JNum(n) == [kind |-> "number", val |-> n]
\* the body of a response that response.json() cannot parse
BadJson == [kind |-> "unparseable", val |-> <<>>]

\* property names
P_insights == <<"i", "n", "s", "i", "g", "h", "t", "s">>
P_anchors == <<"a", "n", "c", "h", "o", "r", "s">>
P_rejected == <<"r", "e", "j", "e", "c", "t", "e", "d">>
P_id == <<"i", "d">>
P_insight_id == <<"i", "n", "s", "i", "g", "h", "t", "_", "i", "d">>
P_source == <<"s", "o", "u", "r", "c", "e">>
P_content == <<"c", "o", "n", "t", "e", "n", "t">>
P_statement == <<"s", "t", "a", "t", "e", "m", "e", "n", "t">>
P_evidence == <<"e", "v", "i", "d", "e", "n", "c", "e">>
P_strength == <<"s", "t", "r", "e", "n", "g", "t", "h">>
P_chat_timestamp == <<"c", "h", "a", "t", "_", "t", "i", "m", "e", "s", "t", "a", "m", "p">>
P_occurrence_count == <<"o", "c", "c", "u", "r", "r", "e", "n", "c", "e", "_", "c", "o", "u", "n", "t">>
P_last_seen == <<"l", "a", "s", "t", "_", "s", "e", "e", "n">>

\* v[name] for a value that is neither null nor undefined: the property of
\* an object, undefined when it has none (and for numbers and arrays, whose
\* properties the documents never name)
Get(v, name) ==
    IF v.kind = "object" /\ \E i \in 1..Len(v.val) : v.val[i][1] = name
    THEN v.val[CHOOSE i \in 1..Len(v.val) : v.val[i][1] = name][2]
    ELSE Undefined

\* whether v.name throws: property access on null or undefined
Nullish(v) == v.kind \in {"null", "undefined"}

\* typeof v === 'object'
TypeofObject(v) == v.kind \in {"object", "array", "null"}

Digits == <<"0", "1", "2", "3", "4", "5", "6", "7", "8", "9">>

\* Object.keys of a value that is not nullish: the property names of an
\* object, the indices of an array as strings, nothing for a number
ObjectKeys(v) ==
    CASE v.kind = "object" -> [i \in 1..Len(v.val) |-> v.val[i][1]]
      [] v.kind = "array" -> [i \in 1..Len(v.val) |-> <<Digits[i]>>]
      [] OTHER -> <<>>

\* Object.values of a value that is not nullish
ObjectValues(v) ==
    CASE v.kind = "object" -> [i \in 1..Len(v.val) |-> v.val[i][2]]
      [] v.kind = "array" -> v.val
      [] OTHER -> <<>>

\* v[key] for a key Object.keys(v) gave
AtKey(v, key) ==
    IF v.kind = "array"
    THEN v.val[CHOOSE i \in 1..Len(v.val) : <<Digits[i]>> = key]
    ELSE Get(v, key)

\* ToBoolean of a value
Truthy(v) ==
    CASE v.kind = "undefined" -> FALSE
      [] v.kind = "null" -> FALSE
      [] v.kind = "string" -> Len(v.val) > 0
      [] v.kind = "number" -> v.val # 0
      [] OTHER -> TRUE

----------------------------------------------------------------------------
(* ContextPanel.showRelatedInsights *)

\* SomeIncludes with the test turned round: conversationId.includes(e)
RECURSIVE SomeIncludes_Reversed(_, _)
SomeIncludes_Reversed(entries, conversationId) ==
    IF Len(entries) = 0 THEN "false"
    ELSE IF Head(entries).kind # "string" THEN "throw"
    ELSE IF Includes(conversationId, Head(entries).val) THEN "true"
    ELSE SomeIncludes_Reversed(Tail(entries), conversationId)

\* insight.evidence.some(e => e.includes(conversationId)) on an array's
\* elements: "true", "false", or "throw" when an element reached before a
\* match is no string (e.includes is not a function)
RECURSIVE SomeIncludes(_, _)
SomeIncludes(entries, conversationId) ==
    IF Len(entries) = 0 THEN "false"
    ELSE IF Head(entries).kind # "string" THEN "throw"
    ELSE IF Includes(Head(entries).val, conversationId) THEN "true"
    ELSE SomeIncludes(Tail(entries), conversationId)

\* the filter callback: insight.evidence && insight.evidence.some(...)
EvidenceTest(insight, conversationId) ==
    IF ~Truthy(insight.evidence) THEN "false"
    ELSE IF insight.evidence.kind # "array" THEN "throw"
    ELSE SomeIncludes(insight.evidence.val, conversationId)

\* insights.filter(...): the callback runs on the insights in order and the
\* first throw ends the filter
RECURSIVE RelatedFilter(_, _)
RelatedFilter(all, conversationId) ==
    IF Len(all) = 0 THEN [raised |-> FALSE, items |-> <<>>]
    ELSE LET t == EvidenceTest(Head(all), conversationId)
         IN  IF t = "throw" THEN [raised |-> TRUE, items |-> <<>>]
             ELSE LET rest == RelatedFilter(Tail(all), conversationId)
                  IN  IF rest.raised THEN rest
                      ELSE IF t = "true"
                           THEN [raised |-> FALSE, items |-> <<Head(all)>> \o rest.items]
                           ELSE rest

\* the comparator with its operands swapped: a.strength - b.strength
CompareStrength_Ascending(a, b) == a.strength - b.strength

\* the comparator (a, b) => b.strength - a.strength
CompareStrength(a, b) == b.strength - a.strength

\* x placed into a sorted sequence behind every element the comparator does
\* not order after it
RECURSIVE InsertSorted(_, _)
InsertSorted(sorted, x) ==
    IF Len(sorted) = 0 THEN <<x>>
    ELSE IF CompareStrength(Head(sorted), x) <= 0
         THEN <<Head(sorted)>> \o InsertSorted(Tail(sorted), x)
         ELSE <<x>> \o sorted

\* Array.prototype.sort with the strength comparator: stable
RECURSIVE SortByStrength(_)
SortByStrength(seq) ==
    IF Len(seq) = 0 THEN <<>>
    ELSE InsertSorted(SortByStrength(SubSeq(seq, 1, Len(seq) - 1)), seq[Len(seq)])

RelatedLimit == 5

\* the sorted list without the slice
LimitedInsights_NoCut(related) == SortByStrength(related)

\* relatedInsights.sort(...).slice(0, 5)
LimitedInsights(related) == Slice0(SortByStrength(related), RelatedLimit)

\* ContextPanel.show: the pending timer is cancelled, the panel becomes
\* visible, and a hide is scheduled unless pinned
Show ==
    /\ panelVisible' = TRUE
    /\ hideTimeout' = ~pinned
    /\ UNCHANGED <<pinned, mouseInPanel>>

ShowRelatedInsights(conversationId) ==
    LET f == RelatedFilter(insights, conversationId)
    IN  /\ lastCall' = [op |-> "related", conv |-> conversationId, insight |-> 0,
                        text |-> <<>>, raised |-> f.raised]
        /\ IF f.raised \/ Len(f.items) = 0
           THEN UNCHANGED panelVars
           ELSE /\ panelTitle' = "Related Insights"
                /\ panelContent' = LimitedInsights(f.items)
                /\ Show
        /\ UNCHANGED <<resolverVars, fetchVars, appVars, tabVars, reviewVars, anchorsVars, similar, viewVars>>

----------------------------------------------------------------------------
(* ContextPanel.showSourceConversations *)

\* const [tool, ...idParts] = evidenceStr.split('/'); idParts.join('/')
IdFragment(evidenceStr) == Join(Tail(Split(evidenceStr, "/")), "/")

\* the scan with one direction of containment only: convId.includes(id)
RECURSIVE FirstMatch_OneWay(_, _)
FirstMatch_OneWay(convIds, id) ==
    IF Len(convIds) = 0 THEN <<>>
    ELSE IF Includes(Head(convIds), id)
         THEN <<Head(convIds)>>
         ELSE FirstMatch_OneWay(Tail(convIds), id)

\* the for..of over conversations.entries() with its break: the first
\* conversation id, in the map's order, that matches; none gives <<>>
RECURSIVE FirstMatch(_, _)
FirstMatch(convIds, id) ==
    IF Len(convIds) = 0 THEN <<>>
    ELSE IF Includes(Head(convIds), id) \/ Includes(id, Head(convIds))
         THEN <<Head(convIds)>>
         ELSE FirstMatch(Tail(convIds), id)

\* insight.evidence.forEach(...): a non-string entry throws at split
RECURSIVE SourceScan(_, _)
SourceScan(entries, convIds) ==
    IF Len(entries) = 0 THEN [raised |-> FALSE, items |-> <<>>]
    ELSE IF Head(entries).kind # "string" THEN [raised |-> TRUE, items |-> <<>>]
    ELSE LET rest == SourceScan(Tail(entries), convIds)
         IN  IF rest.raised THEN rest
             ELSE [raised |-> FALSE,
                   items |-> FirstMatch(convIds, IdFragment(Head(entries).val))
                             \o rest.items]

\* the whole lookup: "return" (no evidence), "throw", or the matches
SourceLookup(insight, convIds) ==
    IF ~Truthy(insight.evidence) THEN [raised |-> FALSE, items |-> <<>>]
    ELSE IF insight.evidence.kind # "array" THEN [raised |-> TRUE, items |-> <<>>]
    ELSE SourceScan(insight.evidence.val, convIds)

SourceLimit == 5

\* sourceConversations.slice(0, 5)
LimitedConversations(found) == Slice0(found, SourceLimit)

ShowSourceConversations(k) ==
    LET f == SourceLookup(insights[k], conversations)
    IN  /\ lastCall' = [op |-> "source", conv |-> <<>>, insight |-> k,
                        text |-> <<>>, raised |-> f.raised]
        /\ IF f.raised \/ Len(f.items) = 0
           THEN UNCHANGED panelVars
           ELSE /\ panelTitle' = "Source Conversations"
                /\ panelContent' = LimitedConversations(f.items)
                /\ Show
        /\ UNCHANGED <<resolverVars, fetchVars, appVars, tabVars, reviewVars, anchorsVars, similar, viewVars>>

----------------------------------------------------------------------------
(* The resolver's inputs: loaded insights and conversations *)

\* conversation ids
ConvIds == {<<"a">>, <<"a", "b">>, <<"c">>}

\* evidence strings "tool/fragment": fragment equal to an id, a proper part
\* of an id, containing an id, matching nothing, holding a second slash, and
\* a string with no slash at all
EvidenceStrings ==
    {<<"c", "/", "a">>, <<"c", "/", "a", "b">>, <<"c", "/", "b", "b">>,
     <<"c", "/", "a", "/", "b">>, <<"a", "b">>}

\* the strings the long evidence arrays are built from
LongEvidenceStrings == {<<"c", "/", "a">>, <<"c", "/", "b", "b">>}

SeqsUpTo(S, n) == UNION {[1..m -> S] : m \in 0..n}

\* evidence arrays as the sync collaborator writes them, and the malformed
\* ones: an element that is an object, as AnchorsModule.getInsightEvidence
\* reads them
EvidenceArrays ==
    {Arr(a) : a \in SeqsUpTo({Str(e) : e \in EvidenceStrings} \cup {Obj},
                             MaxShortEvidence)}
    \cup {Arr(a) : a \in SeqsUpTo({Str(e) : e \in LongEvidenceStrings}, MaxEvidence)}

\* every value of an insight's evidence field: absent, a bare string, an array
EvidenceValues == {Undefined, Str(<<"c", "/", "a">>)} \cup EvidenceArrays

\* the Map's keys in insertion order: distinct ids
ConvMaps ==
    {m \in SeqsUpTo(ConvIds, MaxConvs) :
        \A i, j \in 1..Len(m) : i # j => m[i] # m[j]}

\* many insights, each citing one conversation: two that cite the same
\* conversation with different strengths, and one that cites another
ManyInsights ==
    LET Kinds == {[evidence |-> Arr(<<Str(<<"c", "/", "a", "b">>)>>), strength |-> 1],
                  [evidence |-> Arr(<<Str(<<"c", "/", "a", "b">>)>>), strength |-> 2],
                  [evidence |-> Arr(<<Str(<<"c", "/", "a">>)>>), strength |-> 2]}
    IN  {[k \in 1..Len(f) |-> [id |-> k, evidence |-> f[k].evidence,
                               strength |-> f[k].strength]] :
            f \in SeqsUpTo(Kinds, MaxInsights)}

\* one insight with any evidence value
OneInsight ==
    {<<[id |-> 1, evidence |-> ev, strength |-> 1]>> : ev \in EvidenceValues}

NoCall == [op |-> "none", conv |-> <<>>, insight |-> 0, text |-> <<>>, raised |-> FALSE]

PanelInit ==
    /\ panelTitle = ""
    /\ panelContent = <<>>
    /\ panelVisible = FALSE
    /\ pinned = FALSE
    /\ hideTimeout = FALSE
    /\ mouseInPanel = FALSE

\* no document is served
\* no sync index and no archive file
NoSyncFetched ==
    /\ syncResp = [status |-> "reject"]
    /\ archiveResps = <<>>

NothingFetched ==
    /\ insightsResp = [status |-> "reject"]
    /\ fallbackResp = [status |-> "reject"]
    /\ anchorsResp = [status |-> "reject"]
    /\ rejectedResp = [status |-> "reject"]
    /\ NoSyncFetched

\* AnchorsModule.constructor: the data stores
AnchorsInit ==
    /\ anchors = <<>>
    /\ anchorsInsights = <<>>
    /\ rejected = <<>>
    /\ pendingInsights = <<>>

\* AIMemoryHub before init: no conversations module yet
AppCreated ==
    /\ conversationRecords = <<>>
    /\ conversationItems = {}
    /\ appStep = "created"

\* no header carries a direction class
NoHeader == [column |-> <<>>, direction |-> "none"]

\* the insights tab before anything is rendered into it
ViewInit ==
    /\ cloud = <<>>
    /\ searchInput = <<>>
    /\ categoryFilter = <<>>
    /\ sourceFilter = <<>>
    /\ tableRows = <<>>
    /\ currentSortColumn = P_last_seen
    /\ currentSortDirection = "desc"
    /\ markedHeader = NoHeader

\* AIMemoryHub.constructor and InsightsModule before it exists: no module,
\* the conversations tab current and active
TabsCreated ==
    /\ currentTab = "conversations"
    /\ activeTab = "conversations"
    /\ conversationsModule = "null"
    /\ insightsModule = "null"
    /\ initRender = FALSE
    /\ switchPending = {}
    /\ isRendered = FALSE
    /\ renderedViews = [state |-> "blank", insights |-> <<>>]
    /\ constructions = [conversations |-> 0, insights |-> 0]
    /\ initCalls = [conversations |-> 0, insights |-> 0]

NoSummary == [kind |-> "none", approved |-> 0, rejected |-> 0, skipped |-> 0]
NoDispatch == [event |-> "none", left |-> 0]

\* AnchorsModule.constructor: the UI state and the review session state,
\* nothing rendered and no listener attached
AnchorsCreated ==
    /\ currentView = "overview"
    /\ reviewIndex = 0
    /\ reviewDecisions = <<>>
    /\ advanceTimers = 0
    /\ overviewListeners = 0
    /\ reviewListeners = 0
    /\ keyHandlers = 0
    /\ keyHandler = FALSE
    /\ container = [view |-> "empty", card |-> 0]
    /\ summary = NoSummary
    /\ dispatch = NoDispatch

InitResolver ==
    /\ \/ /\ insights \in ManyInsights
          /\ conversations = <<<<"a", "b">>>>
       \/ /\ insights \in OneInsight
          /\ conversations \in ConvMaps
    /\ PanelInit
    /\ lastCall = NoCall
    /\ NothingFetched
    /\ AnchorsInit
    /\ similar = <<>>
    /\ ViewInit
    /\ AppCreated
    /\ TabsCreated
    /\ AnchorsCreated

NextResolver ==
    \/ \E i \in 1..Len(conversations) : ShowRelatedInsights(conversations[i])
    \/ \E k \in 1..Len(insights) : ShowSourceConversations(k)

SpecResolver == InitResolver /\ [][NextResolver]_vars

----------------------------------------------------------------------------
(* Claims about the cross-reference resolver, checked under SpecResolver *)

\* the insights showRelatedInsights(c) selects, before the sort and the cut
Candidates(c) == RelatedFilter(insights, c).items

\* an evidence value that is an array of strings only
WellFormed(ev) ==
    ev.kind = "array" /\ \A i \in 1..Len(ev.val) : ev.val[i].kind = "string"

\* the text after the first '/' of an evidence string, "" when it has none
FragmentOf(e) ==
    IF \E i \in 1..Len(e) : e[i] = "/"
    THEN LET first == CHOOSE i \in 1..Len(e) :
                        e[i] = "/" /\ \A j \in 1..(i - 1) : e[j] # "/"
         IN  SubSeq(e, first + 1, Len(e))
    ELSE <<>>

\* C1: the related-insights list and the source-conversations list hold at
\* most 5 elements each, for every conversation id and every insight, and so
\* does the list the panel displays.
C1_ResultBound ==
    /\ Len(panelContent) <= 5
    /\ \A c \in Range(conversations) : Len(LimitedInsights(Candidates(c))) <= 5
    /\ \A k \in 1..Len(insights) :
          Len(LimitedConversations(SourceLookup(insights[k], conversations).items)) <= 5

\* more than 5 insights were selected and the panel shows 5 of them
C1_Witness ==
    /\ lastCall.op = "related"
    /\ Len(Candidates(lastCall.conv)) > 5
    /\ panelTitle = "Related Insights"
    /\ Len(panelContent) = 5

\* C2: showRelatedInsights(C) selects every insight that has an evidence
\* entry "tool/fragment" whose fragment is a substring of C or contains C, so
\* an insight whose source conversations include C is a candidate for C.
\* (The statement of the claim; the code selects on one direction only.)
C2_BothDirections ==
    (lastCall.op = "related" /\ ~lastCall.raised) =>
        \A k \in 1..Len(insights) :
            (/\ WellFormed(insights[k].evidence)
             /\ \E i \in 1..Len(insights[k].evidence.val) :
                  LET e == insights[k].evidence.val[i].val
                  IN  /\ \E j \in 1..Len(e) : e[j] = "/"
                      /\ \/ Includes(lastCall.conv, FragmentOf(e))
                         \/ Includes(FragmentOf(e), lastCall.conv))
            => insights[k] \in Range(Candidates(lastCall.conv))

\* C3: before truncation showRelatedInsights(C) selects an insight iff one of
\* its evidence strings contains C; an insight with an entry "tool/F" is
\* selected when C is an exact copy of F; and when at most 5 are selected the
\* panel shows exactly those.
HasEvidenceContaining(insight, c) ==
    /\ insight.evidence.kind = "array"
    /\ \E i \in 1..Len(insight.evidence.val) :
          /\ insight.evidence.val[i].kind = "string"
          /\ Includes(insight.evidence.val[i].val, c)

C3_SelectedIffContains ==
    /\ \A c \in Range(conversations) :
          ~RelatedFilter(insights, c).raised =>
             /\ Candidates(c) = SelectSeq(insights, LAMBDA x : HasEvidenceContaining(x, c))
             /\ \A k \in 1..Len(insights) :
                   (/\ insights[k].evidence.kind = "array"
                    /\ \E i \in 1..Len(insights[k].evidence.val) :
                          /\ insights[k].evidence.val[i].kind = "string"
                          /\ \E j \in 1..Len(insights[k].evidence.val[i].val) :
                                insights[k].evidence.val[i].val[j] = "/"
                          /\ FragmentOf(insights[k].evidence.val[i].val) = c)
                   => insights[k] \in Range(Candidates(c))
    /\ (lastCall.op = "related" /\ ~lastCall.raised) =>
          LET sel == {insights[k] : k \in {j \in 1..Len(insights) :
                          HasEvidenceContaining(insights[j], lastCall.conv)}}
          IN  /\ sel # {} => /\ panelTitle = "Related Insights"
                             /\ Range(panelContent) \subseteq sel
              /\ (sel # {} /\ Cardinality(sel) <= 5) => Range(panelContent) = sel

\* a hover on conversation "ab" selected an insight citing "c/ab" and left
\* out another insight
C3_Witness ==
    /\ lastCall.op = "related"
    /\ lastCall.conv = <<"a", "b">>
    /\ panelTitle = "Related Insights"
    /\ \E k \in 1..Len(insights) :
          /\ insights[k].evidence = Arr(<<Str(<<"c", "/", "a", "b">>)>>)
          /\ insights[k] \in Range(panelContent)
    /\ \E k \in 1..Len(insights) : insights[k] \notin Range(Candidates(lastCall.conv))

\* C4: the insights showRelatedInsights displays are in strength-descending
\* order, two of equal strength keep the order they have in the loaded
\* collection (ids are positions in it), and the ones displayed are the first
\* 5 of that ordering: every selected insight left out sorts after every
\* displayed one.
Before(x, y) ==
    x.strength > y.strength \/ (x.strength = y.strength /\ x.id < y.id)

MatchesEntry(convId, e) ==
    Includes(convId, FragmentOf(e)) \/ Includes(FragmentOf(e), convId)

Contribution(e) ==
    LET hits == {i \in 1..Len(conversations) : MatchesEntry(conversations[i], e)}
    IN  IF hits = {} THEN <<>>
        ELSE <<conversations[CHOOSE i \in hits : \A j \in hits : i <= j]>>

RECURSIVE Contributions(_)
Contributions(entries) ==
    IF Len(entries) = 0 THEN <<>>
    ELSE Contribution(Head(entries).val) \o Contributions(Tail(entries))

C5_OnePerEntry ==
    /\ \A k \in 1..Len(insights) :
          WellFormed(insights[k].evidence) =>
             /\ ~SourceLookup(insights[k], conversations).raised
             /\ SourceLookup(insights[k], conversations).items
                   = Contributions(insights[k].evidence.val)
             /\ Len(SourceLookup(insights[k], conversations).items)
                   <= Len(insights[k].evidence.val)
    /\ (/\ lastCall.op = "source"
        /\ WellFormed(insights[lastCall.insight].evidence)
        /\ Contributions(insights[lastCall.insight].evidence.val) # <<>>) =>
          /\ panelTitle = "Source Conversations"
          /\ panelContent =
                SubSeq(Contributions(insights[lastCall.insight].evidence.val), 1,
                       IF Len(Contributions(insights[lastCall.insight].evidence.val)) < 5
                       THEN Len(Contributions(insights[lastCall.insight].evidence.val))
                       ELSE 5)

\* an insight with six evidence entries, one matching two loaded
\* conversations and one matching none: 5 conversations are displayed
C5_Witness ==
    /\ lastCall.op = "source"
    /\ WellFormed(insights[lastCall.insight].evidence)
    /\ Len(insights[lastCall.insight].evidence.val) > 5
    /\ \E i \in 1..Len(insights[lastCall.insight].evidence.val) :
          Contribution(insights[lastCall.insight].evidence.val[i].val) = <<>>
    /\ \E i \in 1..Len(insights[lastCall.insight].evidence.val) :
          Cardinality({j \in 1..Len(conversations) :
              MatchesEntry(conversations[j],
                           insights[lastCall.insight].evidence.val[i].val)}) > 1
    /\ panelTitle = "Source Conversations"
    /\ Len(panelContent) < Len(insights[lastCall.insight].evidence.val) - 1

\* C6: neither resolver operation ever raises, whatever the loaded insights
\* hold in their evidence field. (The statement of the claim; a handler that
\* ended in a TypeError sets lastCall.raised.)
C6_NeverRaises == ~lastCall.raised

----------------------------------------------------------------------------
(* AnchorsModule.loadData and calculatePendingInsights *)

Ok(v) == [raised |-> FALSE, value |-> v]
Threw == [raised |-> TRUE, value |-> <<>>]

\* the anchors block: this.anchors = data.anchors || [], [] when the fetch
\* rejects, the response is not ok, or json() or data.anchors throws. The
\* documents modelled hold an array under "anchors" or nothing.
LoadAnchors(resp) ==
    IF resp.status # "ok" THEN <<>>
    ELSE IF resp.body = BadJson \/ Nullish(resp.body) THEN <<>>
    ELSE IF Truthy(Get(resp.body, P_anchors))
         THEN Get(resp.body, P_anchors).val
         ELSE <<>>

\* the if/else-if chain that normalizes the parsed insights document; it
\* throws where data.insights or Object.values(null) throws
NormalizeInsights(data) ==
    IF data.kind = "array" THEN Ok(data.val)
    ELSE IF Nullish(data) THEN Threw
    ELSE IF Get(data, P_insights).kind = "array" THEN Ok(Get(data, P_insights).val)
    ELSE IF Truthy(data) /\ TypeofObject(Get(data, P_insights))
         THEN IF Nullish(Get(data, P_insights)) THEN Threw
              ELSE Ok(ObjectValues(Get(data, P_insights)))
    ELSE IF Truthy(data) /\ TypeofObject(data) THEN Ok(ObjectValues(data))
    ELSE Ok(<<>>)

\* the insights block with its try/catch
LoadInsights(resp) ==
    IF resp.status # "ok" THEN <<>>
    ELSE IF resp.body = BadJson THEN <<>>
    ELSE IF NormalizeInsights(resp.body).raised THEN <<>>
    ELSE NormalizeInsights(resp.body).value

\* the rejected block: this.rejected = data.rejected || []
LoadRejected(resp) ==
    IF resp.status # "ok" THEN <<>>
    ELSE IF resp.body = BadJson \/ Nullish(resp.body) THEN <<>>
    ELSE IF Truthy(Get(resp.body, P_rejected))
         THEN Get(resp.body, P_rejected).val
         ELSE <<>>

\* a.source?.insight_id
SourceInsightId(a) ==
    IF Nullish(Get(a, P_source)) THEN Undefined
    ELSE Get(Get(a, P_source), P_insight_id)

\* new Set(anchors.filter(a => a.source?.insight_id).map(a => a.source.insight_id))
AnchoredIds(anch) ==
    {SourceInsightId(anch[i]) : i \in {j \in 1..Len(anch) : Truthy(SourceInsightId(anch[j]))}}

\* new Set(rejected.map(r => r.insight_id))
RejectedIds(rej) == {Get(rej[i], P_insight_id) : i \in 1..Len(rej)}

\* insight.id || insight.insight_id
InsightId(insight) ==
    IF Truthy(Get(insight, P_id)) THEN Get(insight, P_id)
    ELSE Get(insight, P_insight_id)

\* the callback without the rejected set
IsPending_IgnoresRejected(insight, anch, rej) ==
    InsightId(insight) \notin AnchoredIds(anch)

\* the filter callback of calculatePendingInsights
IsPending(insight, anch, rej) ==
    /\ InsightId(insight) \notin AnchoredIds(anch)
    /\ InsightId(insight) \notin RejectedIds(rej)

\* calculatePendingInsights: throws at insight.id when an element of
\* insights is null
CalculatePending(anch, ins, rej) ==
    IF \E i \in 1..Len(ins) : Nullish(ins[i]) THEN Threw
    ELSE Ok(SelectSeq(ins, LAMBDA x : IsPending(x, anch, rej)))

\* AnchorsModule.loadData; a throw of calculatePendingInsights leaves
\* pendingInsights as it was and reaches the caller
AnchorsLoadData ==
    LET a == LoadAnchors(anchorsResp)
        i == LoadInsights(insightsResp)
        r == LoadRejected(rejectedResp)
        p == CalculatePending(a, i, r)
    IN  /\ anchors' = a
        /\ anchorsInsights' = i
        /\ rejected' = r
        /\ pendingInsights' = IF p.raised THEN pendingInsights ELSE p.value
        /\ lastCall' = [op |-> "anchorsLoad", conv |-> <<>>, insight |-> 0,
                        text |-> <<>>, raised |-> p.raised]
        /\ UNCHANGED <<resolverVars, panelVars, fetchVars, appVars, tabVars, reviewVars, similar, viewVars>>

----------------------------------------------------------------------------
(* InsightsModule.loadData *)

\* the response the inner try/catch leaves: the primary one when it is ok,
\* else whatever the fallback fetch answers
InsightsResponse ==
    IF insightsResp.status = "ok" THEN insightsResp ELSE fallbackResp

\* { id: key, ...value }: the key as id, overridden by the value's own id;
\* a value that is no object spreads to nothing
WithId(key, value) ==
    IF value.kind # "object" THEN JObj(<<<<P_id, Str(key)>>>>)
    ELSE JObj(<<<<P_id, IF \E i \in 1..Len(value.val) : value.val[i][1] = P_id
                        THEN Get(value, P_id) ELSE Str(key)>>>>
              \o SelectSeq(value.val, LAMBDA e : e[1] # P_id))

\* Object.keys(data.insights).map(key => ({id: key, ...data.insights[key]}))
KeyedInsights(data) ==
    IF Nullish(data) THEN Threw
    ELSE IF Nullish(Get(data, P_insights)) THEN Threw
    ELSE Ok([i \in 1..Len(ObjectKeys(Get(data, P_insights))) |->
                WithId(ObjectKeys(Get(data, P_insights))[i],
                       AtKey(Get(data, P_insights),
                             ObjectKeys(Get(data, P_insights))[i]))])

\* the value loadData leaves in this.insights
LoadedInsights(resp) ==
    IF resp.status = "reject" THEN <<>>
    ELSE IF resp.body = BadJson THEN <<>>
    ELSE IF KeyedInsights(resp.body).raised THEN <<>>
    ELSE KeyedInsights(resp.body).value

InsightsLoadData ==
    /\ insights' = LoadedInsights(InsightsResponse)
    /\ lastCall' = [op |-> "insightsLoad", conv |-> <<>>, insight |-> 0,
                    text |-> <<>>, raised |-> FALSE]
    /\ UNCHANGED <<conversations, panelVars, fetchVars, appVars, tabVars, reviewVars, anchorsVars, similar, viewVars>>

----------------------------------------------------------------------------
(* The documents the loaders fetch *)

\* the key of the j-th logical record: "i1", "i2", ...
KeyOf(j) == <<"i", Digits[j + 1]>>

\* the j-th logical record, with its own id or without one
RecordOf(j, withId) ==
    JObj((IF withId THEN <<<<P_id, Str(KeyOf(j))>>>> ELSE <<>>)
         \o <<<<P_content, Str(<<"t", Digits[j + 1]>>)>>>>)

\* the logical record lists: which of the records 1..n carry an id
LogicalLists == SeqsUpTo(BOOLEAN, MaxRecords)

AsArray(L) == Arr([j \in 1..Len(L) |-> RecordOf(j, L[j])])
AsMap(L) == JObj([j \in 1..Len(L) |-> <<KeyOf(j), RecordOf(j, L[j])>>])

\* the four accepted shapes of an insights document
Shaped(L, shape) ==
    CASE shape = "array" -> AsArray(L)
      [] shape = "insights-array" -> JObj(<<<<P_insights, AsArray(L)>>>>)
      [] shape = "insights-map" -> JObj(<<<<P_insights, AsMap(L)>>>>)
      [] shape = "map" -> AsMap(L)

Shapes == {"array", "insights-array", "insights-map", "map"}

\* parsed documents of other shapes
OtherDocs ==
    {JNull, JNum(5), Str(<<"x">>), Arr(<<JNull>>),
     JObj(<<<<P_insights, JNull>>>>), JObj(<<<<P_insights, JNum(5)>>>>)}

InsightsDocs == {Shaped(L, sh) : L \in LogicalLists, sh \in Shapes} \cup OtherDocs

Rejects == [status |-> "reject"]
Answers(st, body) == [status |-> st, body |-> body]

InsightsResps ==
    {Rejects, Answers("notok", BadJson), Answers("ok", BadJson)}
    \cup {Answers("ok", d) : d \in InsightsDocs}

\* the fallback path: absent, unparseable, or holding a document
FallbackResps ==
    {Rejects, Answers("notok", BadJson), Answers("ok", BadJson),
     Answers("ok", Shaped(<<TRUE>>, "insights-map")),
     Answers("notok", Shaped(<<TRUE>>, "insights-map"))}

\* an anchor elevated from the insight with key "i<j>", and a manual one
ElevatedAnchor(j) ==
    JObj(<<<<P_statement, Str(<<"s", Digits[j + 1]>>)>>,
           <<P_source, JObj(<<<<P_insight_id, Str(KeyOf(j))>>>>)>>>>)
ManualAnchor == JObj(<<<<P_statement, Str(<<"s", "0">>)>>, <<P_source, JObj(<<>>)>>>>)

AnchorsResps ==
    {Rejects, Answers("notok", BadJson), Answers("ok", BadJson),
     Answers("ok", JNull), Answers("ok", JObj(<<>>))}
    \cup {Answers("ok", JObj(<<<<P_anchors, Arr(a)>>>>)) :
            a \in SeqsUpTo({ElevatedAnchor(1), ManualAnchor}, MaxAnchors)}

RejectedRecord(j) == JObj(<<<<P_insight_id, Str(KeyOf(j))>>>>)

RejectedResps ==
    {Rejects, Answers("notok", BadJson), Answers("ok", BadJson)}
    \cup {Answers("ok", JObj(<<<<P_rejected, Arr(r)>>>>)) :
            r \in SeqsUpTo({RejectedRecord(2), RejectedRecord(3)}, MaxRejected)}

InitLoad ==
    /\ insightsResp \in InsightsResps
    /\ fallbackResp \in (IF insightsResp.status = "ok" THEN {Rejects} ELSE FallbackResps)
    /\ anchorsResp \in AnchorsResps
    /\ rejectedResp \in RejectedResps
    /\ NoSyncFetched
    /\ insights = <<>>
    /\ conversations = <<>>
    /\ PanelInit
    /\ lastCall = NoCall
    /\ AnchorsInit
    /\ similar = <<>>
    /\ ViewInit
    /\ AppCreated
    /\ TabsCreated
    /\ AnchorsCreated

NextLoad ==
    \/ AnchorsLoadData
    \/ InsightsLoadData

SpecLoad == InitLoad /\ [][NextLoad]_vars

----------------------------------------------------------------------------
(* Claims about the loaders, checked under SpecLoad *)

\* the resolution order as the specification words it
Resolved(data) ==
    IF data.kind = "array" THEN data.val
    ELSE IF data.kind = "object" /\ Get(data, P_insights).kind = "array"
         THEN Get(data, P_insights).val
    ELSE IF data.kind = "object" /\ Get(data, P_insights).kind = "object"
         THEN ObjectValues(Get(data, P_insights))
    ELSE IF data.kind = "object" THEN ObjectValues(data)
    ELSE <<>>

\* C7: for every parsed insights document AnchorsModule.loadData ends with
\* this.insights chosen by the resolution order (the array itself, else
\* .insights if an array, else the values of .insights if an object, else the
\* values of the top-level object, else the empty array) and never throws.
\* (The statement of the claim.)
C7_ResolutionOrder ==
    (/\ lastCall.op = "anchorsLoad"
     /\ insightsResp.status = "ok"
     /\ insightsResp.body # BadJson) =>
        /\ ~lastCall.raised
        /\ anchorsInsights = Resolved(insightsResp.body)

\* r is the j-th logical record: its content, and its own id when it has one
\* (any id stands in where it has none)
IsRecord(r, j, withId) ==
    /\ r.kind = "object"
    /\ Get(r, P_content) = Str(<<"t", Digits[j + 1]>>)
    /\ withId => Get(r, P_id) = Str(KeyOf(j))

\* loaded holds exactly the records of L
CarriesRecords(loaded, L) ==
    /\ \A j \in 1..Len(L) : \E i \in 1..Len(loaded) : IsRecord(loaded[i], j, L[j])
    /\ \A i \in 1..Len(loaded) : \E j \in 1..Len(L) : IsRecord(loaded[i], j, L[j])

\* C8: the same logical records delivered in any of the four accepted shapes
\* load as the same set of records, in AnchorsModule.loadData and in
\* InsightsModule.loadData. (The statement of the claim.)
C8_SameRecordsAnyShape ==
    \A L \in LogicalLists, sh \in Shapes :
        insightsResp = Answers("ok", Shaped(L, sh)) =>
            /\ lastCall.op = "anchorsLoad" => CarriesRecords(anchorsInsights, L)
            /\ lastCall.op = "insightsLoad" => CarriesRecords(insights, L)

\* C9: after calculatePendingInsights, pendingInsights is exactly the
\* subsequence of insights, in loaded order, whose id is neither the
\* source.insight_id an anchor carries nor the insight_id of a rejected record.
C9_PendingExact ==
    (lastCall.op = "anchorsLoad" /\ ~lastCall.raised) =>
        pendingInsights =
            SelectSeq(anchorsInsights,
                LAMBDA x :
                    /\ ~\E i \in 1..Len(anchors) :
                          /\ Get(anchors[i], P_source).kind = "object"
                          /\ Get(Get(anchors[i], P_source), P_insight_id).kind = "string"
                          /\ Get(Get(anchors[i], P_source), P_insight_id) = Get(x, P_id)
                    /\ ~\E i \in 1..Len(rejected) :
                          Get(rejected[i], P_insight_id) = Get(x, P_id))

\* insights i1, i2, i3 loaded, an anchor elevated from i1, i2 rejected:
\* exactly i3 is pending
C9_Witness ==
    /\ lastCall.op = "anchorsLoad"
    /\ anchorsInsights = AsArray(<<TRUE, TRUE, TRUE>>).val
    /\ \E i \in 1..Len(anchors) : anchors[i] = ElevatedAnchor(1)
    /\ rejected = <<RejectedRecord(2)>>
    /\ pendingInsights = <<RecordOf(3, TRUE)>>

----------------------------------------------------------------------------
(* The word set of a text, as AnchorsModule.findSimilarAnchors builds it *)

UpperCase == <<"A", "B", "C", "D", "E", "F", "G", "H", "I", "J", "K", "L", "M",
               "N", "O", "P", "Q", "R", "S", "T", "U", "V", "W", "X", "Y", "Z">>
LowerCase == <<"a", "b", "c", "d", "e", "f", "g", "h", "i", "j", "k", "l", "m",
               "n", "o", "p", "q", "r", "s", "t", "u", "v", "w", "x", "y", "z">>

\* the lower-case letter of each upper-case one
LowerOf ==
    [c \in Range(UpperCase) |->
        LowerCase[CHOOSE i \in 1..Len(UpperCase) : UpperCase[i] = c]]

\* String.prototype.toLowerCase, over ASCII text
ToLowerCase(s) ==
    [k \in 1..Len(s) |-> IF s[k] \in DOMAIN LowerOf THEN LowerOf[s[k]] ELSE s[k]]

\* the classes \w and \s of the two regular expressions
WordChars == Range(UpperCase) \cup Range(LowerCase) \cup Range(Digits) \cup {"_"}
SpaceChars == {" ", "\t", "\n"}

\* replace(/[^\w\s]/g, '')
StripNonWord(s) == SelectSeq(s, LAMBDA c : c \in WordChars \/ c \in SpaceChars)

\* split(/\s+/) from position i on, with the pieces closed so far, the piece
\* being read and whether the character before i was whitespace: a run of
\* whitespace closes one piece, so text that starts or ends with whitespace
\* (and the empty text) gives an empty piece
RECURSIVE SplitScan(_, _, _, _, _)
SplitScan(s, i, pieces, piece, inRun) ==
    IF i > Len(s) THEN Append(pieces, piece)
    ELSE IF s[i] \in SpaceChars
         THEN IF inRun THEN SplitScan(s, i + 1, pieces, piece, TRUE)
              ELSE SplitScan(s, i + 1, Append(pieces, piece), <<>>, TRUE)
         ELSE SplitScan(s, i + 1, pieces, Append(piece, s[i]), FALSE)

SplitWhitespace(s) == SplitScan(s, 1, <<>>, <<>>, FALSE)

\* w.length > 3
ShortWordLength == 3

\* new Set(text.toLowerCase().replace(..).split(..).filter(w => w.length > 3))
WordSet(text) ==
    {p \in Range(SplitWhitespace(StripNonWord(ToLowerCase(text)))) :
        Len(p) > ShortWordLength}

----------------------------------------------------------------------------
(* The texts findSimilarAnchors is run on *)

\* the words of the candidate texts, and the words only anchors use
CandidateWords == <<<<"a", "l", "p", "h", "a">>, <<"b", "r", "a", "v", "o">>, <<"c", "h", "a", "r", "l", "i", "e">>, <<"d", "e", "l", "t", "a">>, <<"e", "c", "h", "o">>>>
OtherWords == <<<<"f", "o", "x", "t", "r", "o", "t">>, <<"g", "o", "l", "f">>, <<"h", "o", "t", "e", "l">>>>
TheWord == <<"t", "h", "e">>

Styles == {"plain", "styled"}

\* the words a text is written with: a styled text opens with "the" and
\* says its first word again at the end
Written(words, style) ==
    IF style = "plain" THEN words
    ELSE <<TheWord>> \o words \o (IF Len(words) = 0 THEN <<>> ELSE <<words[1]>>)

Capitalized(word) ==
    <<UpperCase[CHOOSE i \in 1..Len(LowerCase) : LowerCase[i] = word[1]]>> \o Tail(word)

\* the text: plain, the words in lower case with one space between them;
\* styled, each word capitalized and followed by a comma and a space, one
\* word to a line
Compose(words, style) ==
    IF style = "plain" THEN Join(Written(words, style), " ")
    ELSE Join([i \in 1..Len(Written(words, style)) |->
                  Capitalized(Written(words, style)[i]) \o <<",", " ">>], "\n")

CandidateLists == {SubSeq(CandidateWords, 1, n) : n \in 0..Len(CandidateWords)}
CandidateTexts == {Compose(ws, st) : ws \in CandidateLists, st \in Styles}

\* an anchor statement: the first i words of the candidate texts and the
\* first b of the others, styled when b is odd
AnchorShapes == {<<0, 0>>, <<0, 2>>, <<2, 0>>, <<2, 2>>, <<3, 0>>, <<3, 2>>, <<3, 3>>}
AnchorList(shape) ==
    SubSeq(CandidateWords, 1, shape[1]) \o SubSeq(OtherWords, 1, shape[2])
AnchorStyle(shape) == IF shape[2] % 2 = 0 THEN "plain" ELSE "styled"
AnchorStatement(shape) == Compose(AnchorList(shape), AnchorStyle(shape))

\* the word set of every text of the input space, each computed once
Texts == CandidateTexts \cup {AnchorStatement(shape) : shape \in AnchorShapes}
WordSets == [text \in Texts |-> WordSet(text)]

----------------------------------------------------------------------------
(* AnchorsModule.findSimilarAnchors *)

\* intersection.size / union.size, kept as the pair <<numerator, denominator>>:
\* the quotient of two set sizes is the double nearest to the fraction, so two
\* such quotients compare as the fractions do, and 0/0 is NaN
Similarity(insightWords, anchorWords) ==
    <<Cardinality(insightWords \cap anchorWords),
      Cardinality(insightWords \cup anchorWords)>>

\* similarity >= 0.4 in place of similarity > 0.4
AboveThreshold_Inclusive(similarity) ==
    similarity[2] # 0 /\ 5 * similarity[1] >= 2 * similarity[2]

\* 0/0 taken to pass the test
AboveThreshold_EmptyPasses(similarity) ==
    similarity[2] = 0 \/ 5 * similarity[1] > 2 * similarity[2]

\* similarity > 0.4: 0.4 is the double nearest to 2/5, and NaN > 0.4 is false
AboveThreshold(similarity) ==
    similarity[2] # 0 /\ 5 * similarity[1] > 2 * similarity[2]

\* {...anchor, similarity}
WithSimilarity(anchor, similarity) == [anchor |-> anchor, similarity |-> similarity]

\* the loop over this.anchors: anchor.statement.toLowerCase() throws a
\* TypeError for an anchor that is null or whose statement is not a string
RECURSIVE SimilarScan(_, _)
SimilarScan(insightWords, rest) ==
    IF Len(rest) = 0 THEN Ok(<<>>)
    ELSE LET anchor == Head(rest)
         IN  IF Nullish(anchor) \/ Get(anchor, P_statement).kind # "string"
             THEN Threw
             ELSE LET similarity ==
                          Similarity(insightWords, WordSets[Get(anchor, P_statement).val])
                      later == SimilarScan(insightWords, Tail(rest))
                  IN  IF later.raised THEN Threw
                      ELSE Ok((IF AboveThreshold(similarity)
                               THEN <<WithSimilarity(anchor, similarity)>>
                               ELSE <<>>) \o later.value)

\* the sign of the comparator (a, b) => b.similarity - a.similarity
CompareSimilarity(a, b) ==
    b.similarity[1] * a.similarity[2] - a.similarity[1] * b.similarity[2]

RECURSIVE InsertBySimilarity(_, _)
InsertBySimilarity(sorted, x) ==
    IF Len(sorted) = 0 THEN <<x>>
    ELSE IF CompareSimilarity(Head(sorted), x) <= 0
         THEN <<Head(sorted)>> \o InsertBySimilarity(Tail(sorted), x)
         ELSE <<x>> \o sorted

\* Array.prototype.sort with the similarity comparator: stable
RECURSIVE SortBySimilarity(_)
SortBySimilarity(seq) ==
    IF Len(seq) = 0 THEN <<>>
    ELSE InsertBySimilarity(SortBySimilarity(SubSeq(seq, 1, Len(seq) - 1)),
                            seq[Len(seq)])

FindSimilarAnchors(insightText) ==
    LET found == SimilarScan(WordSets[insightText], anchors)
    IN  /\ similar' = IF found.raised THEN similar ELSE SortBySimilarity(found.value)
        /\ lastCall' = [op |-> "findSimilar", conv |-> <<>>, insight |-> 0,
                        text |-> insightText, raised |-> found.raised]
        /\ UNCHANGED <<resolverVars, panelVars, fetchVars, appVars, tabVars, reviewVars, anchorsVars, viewVars>>

----------------------------------------------------------------------------
(* The anchors findSimilarAnchors is run on *)

\* the anchors of anchors.json: each with an id and a statement, or (the
\* shape <<0, 1>>) with no statement at all
SimilarAnchor(k, shape) ==
    IF shape = <<0, 1>>
    THEN JObj(<<<<P_id, Str(<<"a", Digits[k + 1]>>)>>>>)
    ELSE JObj(<<<<P_id, Str(<<"a", Digits[k + 1]>>)>>,
                <<P_statement, Str(AnchorStatement(shape))>>>>)

SimilarAnchorLists ==
    {[k \in 1..Len(shapes) |-> SimilarAnchor(k, shapes[k])] :
        shapes \in SeqsUpTo(AnchorShapes \cup {<<0, 1>>}, MaxSimilarAnchors)}

InitSimilar ==
    /\ anchors \in SimilarAnchorLists
    /\ anchorsInsights = <<>>
    /\ rejected = <<>>
    /\ pendingInsights = <<>>
    /\ insights = <<>>
    /\ conversations = <<>>
    /\ PanelInit
    /\ lastCall = NoCall
    /\ NothingFetched
    /\ similar = <<>>
    /\ ViewInit
    /\ AppCreated
    /\ TabsCreated
    /\ AnchorsCreated

NextSimilar == \E insightText \in CandidateTexts : FindSimilarAnchors(insightText)

SpecSimilar == InitSimilar /\ [][NextSimilar]_vars

----------------------------------------------------------------------------
(* Claim about findSimilarAnchors *)

\* the ways a text of the input space is composed: its words and its style
Compositions ==
    (CandidateLists \cup {AnchorList(sh) : sh \in AnchorShapes}) \X Styles

\* the token set of each such text: its written words longer than 3 characters
TextTokens ==
    [text \in {Compose(c[1], c[2]) : c \in Compositions} |->
        LET c == CHOOSE c \in Compositions : Compose(c[1], c[2]) = text
        IN  {x \in Range(Written(c[1], c[2])) : Len(x) > 3}]

TokensOf(text) == TextTokens[text]

\* 5 * |intersection| > 2 * |union| for the anchor at position i
Overlaps(i) ==
    LET A == TokensOf(lastCall.text)
        B == TokensOf(Get(anchors[i], P_statement).val)
    IN  5 * Cardinality(A \cap B) > 2 * Cardinality(A \cup B)

\* C10: findSimilarAnchors(text) returns exactly the anchors whose token-set
\* Jaccard similarity with text (tokens lower-cased, punctuation stripped,
\* tokens of 3 characters or fewer dropped) is strictly above 0.4, that is
\* 5 * |intersection| > 2 * |union|, each once and carrying its score
\* |intersection| / |union|, ordered by score descending; an anchor at
\* exactly 2/5 or at 3/8 is not returned. (For anchors that all have a
\* statement; the call throws on one that has none.)
C10_SimilarExact ==
    (/\ lastCall.op = "findSimilar"
     /\ \A i \in 1..Len(anchors) : Get(anchors[i], P_statement).kind = "string") =>
        /\ ~lastCall.raised
        /\ \A i \in 1..Len(anchors) :
              Cardinality({k \in 1..Len(similar) : similar[k].anchor = anchors[i]})
                  = (IF Overlaps(i) THEN 1 ELSE 0)
        /\ \A k \in 1..Len(similar) :
              \E i \in 1..Len(anchors) :
                  /\ similar[k].anchor = anchors[i]
                  /\ similar[k].similarity =
                        <<Cardinality(TokensOf(lastCall.text)
                                      \cap TokensOf(Get(anchors[i], P_statement).val)),
                          Cardinality(TokensOf(lastCall.text)
                                      \cup TokensOf(Get(anchors[i], P_statement).val))>>
        /\ \A k \in 1..Len(similar) - 1 :
              similar[k].similarity[1] * similar[k + 1].similarity[2]
                  >= similar[k + 1].similarity[1] * similar[k].similarity[2]

\* the five candidate words, styled, against anchors at 3/8, at 3/7 and at
\* 3/5: the first is left out and the other two come back in the other order
C10_Witness ==
    /\ lastCall.op = "findSimilar"
    /\ lastCall.text = Compose(CandidateWords, "styled")
    /\ Len(anchors) = 3
    /\ Get(anchors[1], P_statement) = Str(AnchorStatement(<<3, 3>>))
    /\ Get(anchors[2], P_statement) = Str(AnchorStatement(<<3, 2>>))
    /\ Get(anchors[3], P_statement) = Str(AnchorStatement(<<3, 0>>))
    /\ similar = <<WithSimilarity(anchors[3], <<3, 5>>),
                   WithSimilarity(anchors[2], <<3, 7>>)>>

\* C11: when the candidate text and an anchor statement both have no token
\* longer than 3 characters (both token sets empty, so the union is empty),
\* findSimilarAnchors does not report the anchor and raises no error.
C11_EmptySetsNoMatch ==
    (/\ lastCall.op = "findSimilar"
     /\ \A i \in 1..Len(anchors) : Get(anchors[i], P_statement).kind = "string"
     /\ TokensOf(lastCall.text) = {}) =>
        /\ ~lastCall.raised
        /\ \A i \in 1..Len(anchors) :
              TokensOf(Get(anchors[i], P_statement).val) = {} =>
                  \A k \in 1..Len(similar) : similar[k].anchor # anchors[i]

\* the text "The, " (one short word) against an anchor with the empty
\* statement and one with three long words: nothing is reported
C11_Witness ==
    /\ lastCall.op = "findSimilar"
    /\ ~lastCall.raised
    /\ lastCall.text = Compose(<<>>, "styled")
    /\ Len(anchors) = 2
    /\ Get(anchors[1], P_statement) = Str(AnchorStatement(<<0, 0>>))
    /\ Get(anchors[2], P_statement) = Str(AnchorStatement(<<3, 0>>))
    /\ WordSets[lastCall.text] = {}
    /\ WordSets[AnchorStatement(<<0, 0>>)] = {}
    /\ similar = <<>>

----------------------------------------------------------------------------
(* InsightsModule.renderTopicCloud *)

P_category == <<"c", "a", "t", "e", "g", "o", "r", "y">>
P_constructor == <<"c", "o", "n", "s", "t", "r", "u", "c", "t", "o", "r">>

\* a function, by the text String(f) gives
JFunction(source) == [kind |-> "function", val |-> source]

\* what the accumulator {} inherits from Object.prototype: of its
\* properties the model keeps constructor, the function Object
ObjectSource ==
    <<"f", "u", "n", "c", "t", "i", "o", "n", " ", "O", "b", "j", "e", "c", "t", "(", ")", " ", "{", " ", "[", "n", "a", "t", "i", "v", "e", " ", "c", "o", "d", "e", "]", " ", "}">>
ObjectPrototype == JObj(<<<<P_constructor, JFunction(ObjectSource)>>>>)

HasOwn(obj, name) == \E i \in 1..Len(obj.val) : obj.val[i][1] = name

\* obj[name], read: the object's own property, else the inherited one
GetInherited(obj, name) ==
    IF HasOwn(obj, name) THEN Get(obj, name) ELSE Get(ObjectPrototype, name)

\* obj[name] = value: an own property, new ones after the others
SetOwn(obj, name, value) ==
    IF HasOwn(obj, name)
    THEN JObj([i \in 1..Len(obj.val) |->
                  IF obj.val[i][1] = name THEN <<name, value>> ELSE obj.val[i]])
    ELSE JObj(Append(obj.val, <<name, value>>))

\* (x || 0) + 1: a number is incremented, undefined counts as 0, and a
\* function or a string is concatenated with "1"
PlusOne(x) ==
    IF ~Truthy(x) THEN JNum(1)
    ELSE IF x.kind = "number" THEN JNum(x.val + 1)
    ELSE Str(x.val \o <<"1">>)

\* the reduce over this.insights
RECURSIVE CountTopics(_, _)
CountTopics(all, acc) ==
    IF Len(all) = 0 THEN acc
    ELSE LET category == Get(Head(all), P_category)
         IN  CountTopics(Tail(all),
                 IF Truthy(category)
                 THEN SetOwn(acc, category.val,
                             PlusOne(GetInherited(acc, category.val)))
                 ELSE acc)

JNaN == [kind |-> "NaN", val |-> <<>>]
NegInfinity == [kind |-> "-Infinity", val |-> <<>>]

\* ToNumber of a count: the number itself; a string that starts with the
\* text of a function is not numeric
ToNumber(v) == IF v.kind = "number" THEN v ELSE JNaN

\* Math.max(...values)
MathMax(values) ==
    IF Len(values) = 0 THEN NegInfinity
    ELSE IF \E i \in 1..Len(values) : ToNumber(values[i]) = JNaN THEN JNaN
    ELSE JNum(CHOOSE m \in {values[i].val : i \in 1..Len(values)} :
                  \A i \in 1..Len(values) : values[i].val <= m)

\* 1 + (count / maxCount) * 1.5, kept as the fraction (2m + 3c) / 2m: the
\* roundings of the division, the product and the sum are monotone and far
\* finer than 1/m, and exact at c = m
FontSize(count, maxCount) ==
    IF ToNumber(count) = JNaN \/ maxCount.kind # "number"
    THEN [nan |-> TRUE, num |-> 0, den |-> 1]
    ELSE [nan |-> FALSE, num |-> 2 * maxCount.val + 3 * count.val,
          den |-> 2 * maxCount.val]

RenderTopicCloud ==
    LET topicCounts == CountTopics(insights, JObj(<<>>))
        maxCount == MathMax(ObjectValues(topicCounts))
    IN  /\ cloud' = [i \in 1..Len(topicCounts.val) |->
                        [topic |-> ObjectKeys(topicCounts)[i],
                         fontSize |-> FontSize(ObjectValues(topicCounts)[i], maxCount)]]
        /\ lastCall' = [op |-> "topicCloud", conv |-> <<>>, insight |-> 0,
                        text |-> <<>>, raised |-> FALSE]
        /\ UNCHANGED <<resolverVars, panelVars, fetchVars, appVars, tabVars, reviewVars, anchorsVars, similar, tableVars>>

\* the categories of the loaded insights: none, the empty string, two
\* ordinary labels and the label "constructor"
Categories == {Undefined, Str(<<>>), Str(<<"a">>), Str(<<"b">>), Str(P_constructor)}

CategorizedInsight(k, category) ==
    IF category = Undefined
    THEN JObj(<<<<P_id, Str(<<"i", Digits[k + 1]>>)>>>>)
    ELSE JObj(<<<<P_id, Str(<<"i", Digits[k + 1]>>)>>, <<P_category, category>>>>)

CloudInsights ==
    {[k \in 1..Len(cs) |-> CategorizedInsight(k, cs[k])] :
        cs \in SeqsUpTo(Categories, MaxCloudInsights)}

InitCloud ==
    /\ insights \in CloudInsights
    /\ conversations = <<>>
    /\ PanelInit
    /\ lastCall = NoCall
    /\ NothingFetched
    /\ AnchorsInit
    /\ similar = <<>>
    /\ ViewInit
    /\ AppCreated
    /\ TabsCreated
    /\ AnchorsCreated

NextCloud == RenderTopicCloud

SpecCloud == InitCloud /\ [][NextCloud]_vars

----------------------------------------------------------------------------
(* Claim about renderTopicCloud *)

\* the number of insights whose category is the non-empty string c
CountOf(c) ==
    Cardinality({i \in 1..Len(insights) : Get(insights[i], P_category) = Str(c)})

CountedCategories ==
    {Get(insights[i], P_category).val : i \in
        {j \in 1..Len(insights) : Truthy(Get(insights[j], P_category))}}

LargestCount ==
    CHOOSE m \in {CountOf(c) : c \in CountedCategories} :
        \A c \in CountedCategories : CountOf(c) <= m

\* C12: the topic cloud has one tag per category that some insight has, its
\* weight is 1 + (count / maxCount) * 1.5 over the counts of the insights
\* with that category; a category with a smaller count has a strictly
\* smaller weight, the category with the largest count has weight exactly
\* 2.5, every weight lies in (1, 2.5], and insights without a category count
\* for none. (The statement of the claim.)
C12_TopicWeights ==
    lastCall.op = "topicCloud" =>
        /\ Len(cloud) = Cardinality(CountedCategories)
        /\ {cloud[k].topic : k \in 1..Len(cloud)} = CountedCategories
        /\ \A k \in 1..Len(cloud) :
              /\ ~cloud[k].fontSize.nan
              /\ cloud[k].fontSize.num * 2 * LargestCount =
                    cloud[k].fontSize.den * (2 * LargestCount + 3 * CountOf(cloud[k].topic))
              /\ cloud[k].fontSize.num > cloud[k].fontSize.den
              /\ 2 * cloud[k].fontSize.num <= 5 * cloud[k].fontSize.den
              /\ CountOf(cloud[k].topic) = LargestCount =>
                    2 * cloud[k].fontSize.num = 5 * cloud[k].fontSize.den
        /\ \A k, l \in 1..Len(cloud) :
              CountOf(cloud[k].topic) < CountOf(cloud[l].topic) =>
                  cloud[k].fontSize.num * cloud[l].fontSize.den
                      < cloud[l].fontSize.num * cloud[k].fontSize.den

----------------------------------------------------------------------------
(* InsightsModule.filterTable *)

\* insight.evidence && insight.evidence.length > 0 ?
\*     insight.evidence[0].split('/')[0] : '' ; split throws a TypeError when
\* the first entry is not a string
SourceOf(insight) ==
    LET evidence == Get(insight, P_evidence)
    IN  IF Truthy(evidence) /\ evidence.kind = "array" /\ Len(evidence.val) > 0
        THEN IF evidence.val[1].kind = "string"
             THEN Ok(Split(evidence.val[1].val, "/")[1])
             ELSE Threw
        ELSE Ok(<<>>)

\* field.toLowerCase().includes(searchTerm): a TypeError when the field is
\* not a string
FieldIncludes(field, searchTerm) ==
    IF field.kind = "string"
    THEN Ok(Includes(ToLowerCase(field.val), searchTerm))
    ELSE Threw

\* the || chain of matchesSearch: the next operand is read only when the
\* ones before it are false
MatchesSearch(insight, source, searchTerm) ==
    IF Len(searchTerm) = 0 THEN Ok(TRUE)
    ELSE LET inContent == FieldIncludes(Get(insight, P_content), searchTerm)
             inCategory == FieldIncludes(Get(insight, P_category), searchTerm)
         IN  IF inContent.raised THEN Threw
             ELSE IF inContent.value THEN Ok(TRUE)
             ELSE IF inCategory.raised THEN Threw
             ELSE IF inCategory.value THEN Ok(TRUE)
             ELSE Ok(Includes(ToLowerCase(source), searchTerm))

\* the callback of this.insights.filter
MatchesAll(insight, searchTerm, selectedCategory, selectedSource) ==
    LET source == SourceOf(insight)
    IN  IF source.raised THEN Threw
        ELSE LET matchesCategory ==
                     Len(selectedCategory) = 0
                         \/ Get(insight, P_category) = Str(selectedCategory)
                 matchesSource ==
                     Len(selectedSource) = 0 \/ source.value = selectedSource
                 matchesSearch == MatchesSearch(insight, source.value, searchTerm)
             IN  IF matchesSearch.raised THEN Threw
                 ELSE Ok(matchesCategory /\ matchesSource /\ matchesSearch.value)

\* this.insights.filter(...): stops at the first insight the callback throws on
RECURSIVE FilteredInsights(_, _, _, _)
FilteredInsights(all, searchTerm, selectedCategory, selectedSource) ==
    IF Len(all) = 0 THEN Ok(<<>>)
    ELSE LET first == MatchesAll(Head(all), searchTerm, selectedCategory, selectedSource)
         IN  IF first.raised THEN Threw
             ELSE LET later == FilteredInsights(Tail(all), searchTerm,
                                                selectedCategory, selectedSource)
                  IN  IF later.raised THEN Threw
                      ELSE Ok((IF first.value THEN <<Head(all)>> ELSE <<>>)
                              \o later.value)

\* the columns whose header is sortable
SortableColumns ==
    {P_content, P_category, P_strength, P_chat_timestamp, P_occurrence_count}

\* the header renderTableContent gives the direction class to: the sortable
\* column whose key is currentSortColumn, if there is one
HeaderFor(column, direction) ==
    IF column \in SortableColumns
    THEN [column |-> column, direction |-> direction]
    ELSE NoHeader

\* filterTable with the three controls holding the given values; the table
\* is rendered again only when the filter completes
FilterTable(search, category, source) ==
    LET filtered == FilteredInsights(insights, ToLowerCase(search), category, source)
    IN  /\ searchInput' = search
        /\ categoryFilter' = category
        /\ sourceFilter' = source
        /\ tableRows' = IF filtered.raised THEN tableRows ELSE filtered.value
        /\ markedHeader' = IF filtered.raised THEN markedHeader
                           ELSE HeaderFor(currentSortColumn, currentSortDirection)
        /\ lastCall' = [op |-> "filter", conv |-> <<>>, insight |-> 0,
                        text |-> <<>>, raised |-> filtered.raised]
        /\ UNCHANGED <<resolverVars, panelVars, fetchVars, appVars, tabVars, reviewVars, anchorsVars, similar,
                       cloud, currentSortColumn, currentSortDirection>>

\* what the user can type and select
SearchValues == {<<>>, <<"A">>, <<"c">>}
CategoryValues == {<<>>, <<"x">>}
SourceValues == {<<>>, <<"c">>}

\* keyup in the search box, change of the category and of the source select
KeyupSearch == \E v \in SearchValues : FilterTable(v, categoryFilter, sourceFilter)
ChangeCategory == \E v \in CategoryValues : FilterTable(searchInput, v, sourceFilter)
ChangeSource == \E v \in SourceValues : FilterTable(searchInput, categoryFilter, v)

----------------------------------------------------------------------------
(* The insights of the table *)

\* three insights: one of category x with evidence of the tool c, one of
\* category c without evidence, and one that has no category; strength in
\* hundredths
TableKinds ==
    {<<<<"A", "b">>, Str(<<"x">>), 50, <<"2", "0", "2", "5", "-", "0", "1", "-", "0", "2">>, 2, <<Str(<<"c", "/", "1">>)>>>>,
     <<<<"b">>, Str(<<"c">>), 90, <<"2", "0", "2", "5", "-", "0", "1", "-", "0", "1">>, 1, <<>>>>,
     <<<<"a", "b">>, Undefined, 50, <<"2", "0", "2", "5", "-", "0", "1", "-", "0", "3">>, 1, <<Str(<<"c", "/", "1">>)>>>>}

TableInsight(k, kind) ==
    JObj(<<<<P_id, Str(<<"i", Digits[k + 1]>>)>>,
           <<P_content, Str(kind[1])>>>>
         \o (IF kind[2] = Undefined THEN <<>> ELSE <<<<P_category, kind[2]>>>>)
         \o <<<<P_strength, JNum(kind[3])>>,
              <<P_chat_timestamp, Str(kind[4])>>,
              <<P_occurrence_count, JNum(kind[5])>>,
              <<P_evidence, Arr(kind[6])>>>>)

\* the insights a load can give the table: up to MaxTableInsights of the
\* kinds, each kind once
TableInsights ==
    {[k \in 1..Len(ks) |-> TableInsight(k, ks[k])] :
        ks \in {qs \in SeqsUpTo(TableKinds, MaxTableInsights) :
                   \A i, j \in 1..Len(qs) : i # j => qs[i] # qs[j]}}

\* every row a table can show
TableRowSet ==
    {TableInsight(k, kind) : k \in 1..MaxTableInsights, kind \in TableKinds}

----------------------------------------------------------------------------
(* InsightsModule.sortTable *)

\* the characters of the model's strings in the order of the locale
Collation == Digits \o LowerCase

Ranks == [c \in Range(Collation) |-> CHOOSE i \in 1..Len(Collation) : Collation[i] = c]

RankOf(c) == Ranks[c]

\* the order of two strings letter by letter, case set aside: -1, 0 or 1
RECURSIVE ComparePrimary(_, _)
ComparePrimary(a, b) ==
    IF Len(a) = 0 /\ Len(b) = 0 THEN 0
    ELSE IF Len(a) = 0 THEN -1
    ELSE IF Len(b) = 0 THEN 1
    ELSE IF RankOf(Head(a)) < RankOf(Head(b)) THEN -1
    ELSE IF RankOf(Head(a)) > RankOf(Head(b)) THEN 1
    ELSE ComparePrimary(Tail(a), Tail(b))

\* where two strings differ in case only, at the first such place
RECURSIVE CompareCase(_, _)
CompareCase(a, b) ==
    IF Len(a) = 0 THEN 0
    ELSE IF Head(a) = Head(b) THEN CompareCase(Tail(a), Tail(b))
    ELSE IF Head(a) \in Range(LowerCase) THEN -1 ELSE 1

\* a.localeCompare(b) for strings of letters and digits: by letters first,
\* lower case before upper case among strings that differ in case only
LocaleCompare(a, b) ==
    IF ComparePrimary(ToLowerCase(a), ToLowerCase(b)) # 0
    THEN ComparePrimary(ToLowerCase(a), ToLowerCase(b))
    ELSE CompareCase(a, b)

\* String(v) of the argument of localeCompare
ToStringArg(v) ==
    IF v.kind = "string" THEN v.val ELSE <<"u", "n", "d", "e", "f", "i", "n", "e", "d">>

DigitValue(c) == (CHOOSE i \in 1..Len(Digits) : Digits[i] = c) - 1

RECURSIVE NumberOf(_)
NumberOf(ds) ==
    IF Len(ds) = 0 THEN 0 ELSE 10 * NumberOf(SubSeq(ds, 1, Len(ds) - 1)) + DigitValue(ds[Len(ds)])

\* new Date(v).getTime() for a date YYYY-MM-DD, as a number that orders
\* dates as the milliseconds do; NaN for anything else
TimeOf(v) ==
    IF /\ v.kind = "string"
       /\ Len(v.val) = Len(<<"2", "0", "2", "5", "-", "0", "1", "-", "0", "1">>)
       /\ \A i \in 1..Len(v.val) :
             IF i \in {5, 8} THEN v.val[i] = "-" ELSE v.val[i] \in Range(Digits)
    THEN JNum((NumberOf(SubSeq(v.val, 1, 4)) * 12 + NumberOf(SubSeq(v.val, 6, 7))) * 31
              + NumberOf(SubSeq(v.val, 9, 10)))
    ELSE JNaN

\* valA < valB for numbers, NaN and undefined: false unless both are numbers
LessThan(x, y) == x.kind = "number" /\ y.kind = "number" /\ x.val < y.val

\* the comparator of sortTable for a column and a direction
CompareRows(a, b, columnKey, direction) ==
    LET isDate == columnKey \in {P_chat_timestamp, P_last_seen}
        valA == IF isDate THEN TimeOf(Get(a, columnKey)) ELSE Get(a, columnKey)
        valB == IF isDate THEN TimeOf(Get(b, columnKey)) ELSE Get(b, columnKey)
    IN  IF ~isDate /\ valA.kind = "string"
        THEN IF direction = "asc"
             THEN Ok(LocaleCompare(valA.val, ToStringArg(valB)))
             ELSE IF valB.kind = "string"
                  THEN Ok(LocaleCompare(valB.val, valA.val))
                  ELSE Threw
        ELSE IF LessThan(valA, valB) THEN Ok(IF direction = "asc" THEN -1 ELSE 1)
        ELSE IF LessThan(valB, valA) THEN Ok(IF direction = "asc" THEN 1 ELSE -1)
        ELSE Ok(0)

Sign(n) == IF n < 0 THEN -1 ELSE IF n > 0 THEN 1 ELSE 0

\* the comparator on every pair of rows, by column and direction
Comparisons ==
    [columnKey \in SortableColumns |->
        [direction \in {"asc", "desc"} |->
            [a \in TableRowSet |->
                [b \in TableRowSet |-> CompareRows(a, b, columnKey, direction)]]]]

Compared(a, b, columnKey, direction) == Comparisons[columnKey][direction][a][b]

\* whether some comparison of two of the rows throws
MayThrow(rows, columnKey, direction) ==
    \E i, j \in 1..Len(rows) :
        i # j /\ Compared(rows[i], rows[j], columnKey, direction).raised

\* whether the comparator orders the rows consistently, as
\* Array.prototype.sort requires for a defined result
Consistent(rows, columnKey, direction) ==
    LET cmp(i, j) == Sign(Compared(rows[i], rows[j], columnKey, direction).value)
    IN  /\ \A i, j \in 1..Len(rows) :
              ~Compared(rows[i], rows[j], columnKey, direction).raised
        /\ \A i, j \in 1..Len(rows) : cmp(i, j) = -cmp(j, i)
        /\ \A i, j, k \in 1..Len(rows) :
              /\ (cmp(i, j) < 0 /\ cmp(j, k) < 0) => cmp(i, k) < 0
              /\ (cmp(i, j) = 0 /\ cmp(j, k) = 0) => cmp(i, k) = 0

RECURSIVE InsertRow(_, _, _, _)
InsertRow(sorted, x, columnKey, direction) ==
    IF Len(sorted) = 0 THEN <<x>>
    ELSE IF Compared(Head(sorted), x, columnKey, direction).value <= 0
         THEN <<Head(sorted)>> \o InsertRow(Tail(sorted), x, columnKey, direction)
         ELSE <<x>> \o sorted

\* the stable sort of the rows by a consistent comparator
RECURSIVE StableSort(_, _, _)
StableSort(rows, columnKey, direction) ==
    IF Len(rows) = 0 THEN <<>>
    ELSE InsertRow(StableSort(SubSeq(rows, 1, Len(rows) - 1), columnKey, direction),
                   rows[Len(rows)], columnKey, direction)

Arrangements(rows) ==
    {[i \in 1..Len(rows) |-> rows[f[i]]] :
        f \in {g \in [1..Len(rows) -> 1..Len(rows)] :
                  \A i, j \in 1..Len(rows) : i # j => g[i] # g[j]}}

\* what [...insights].sort(comparator) can give: the stable sort when the
\* comparator is consistent; otherwise the order is implementation-defined,
\* and a comparison that throws ends the sort if the implementation makes it
SortOutcomes(rows, columnKey, direction) ==
    IF Len(rows) < 2 THEN {Ok(rows)}
    ELSE IF Consistent(rows, columnKey, direction)
    THEN {Ok(StableSort(rows, columnKey, direction))}
    ELSE {Ok(r) : r \in Arrangements(rows)}
         \cup (IF MayThrow(rows, columnKey, direction) THEN {Threw} ELSE {})

\* a click on the header of columnKey, in the table that shows tableRows
SortTable(columnKey) ==
    LET direction ==
            IF currentSortColumn = columnKey
            THEN (IF currentSortDirection = "asc" THEN "desc" ELSE "asc")
            ELSE "asc"
    IN  \E sorted \in SortOutcomes(tableRows, columnKey, direction) :
            /\ currentSortColumn' = columnKey
            /\ currentSortDirection' = direction
            /\ tableRows' = IF sorted.raised THEN tableRows ELSE sorted.value
            /\ markedHeader' = IF sorted.raised THEN markedHeader
                               ELSE HeaderFor(columnKey, direction)
            /\ lastCall' = [op |-> "sort", conv |-> <<>>, insight |-> 0,
                            text |-> columnKey, raised |-> sorted.raised]
            /\ UNCHANGED <<resolverVars, panelVars, fetchVars, appVars, tabVars, reviewVars, anchorsVars, similar,
                           cloud, searchInput, categoryFilter, sourceFilter>>

ClickHeader == \E columnKey \in SortableColumns : SortTable(columnKey)

----------------------------------------------------------------------------
(* The table view *)

InitTable ==
    /\ insights \in TableInsights
    /\ conversations = <<>>
    /\ PanelInit
    /\ lastCall = NoCall
    /\ NothingFetched
    /\ AnchorsInit
    /\ similar = <<>>
    /\ ViewInit
    /\ AppCreated
    /\ TabsCreated
    /\ AnchorsCreated

NextTable ==
    \/ KeyupSearch
    \/ ChangeCategory
    \/ ChangeSource
    \/ ClickHeader

SpecTable == InitTable /\ [][NextTable]_vars

----------------------------------------------------------------------------
(* Claim C13 *)

\* the tool namespace of the first evidence entry, '' without evidence
NamespaceOf(insight) ==
    LET evidence == Get(insight, P_evidence)
    IN  IF evidence.kind = "array" /\ Len(evidence.val) > 0
           /\ evidence.val[1].kind = "string"
        THEN Split(evidence.val[1].val, "/")[1]
        ELSE <<>>

\* the strings a search term is looked for in: content, category and source
SearchedFields(insight) ==
    {f.val : f \in {g \in {Get(insight, P_content), Get(insight, P_category)} :
                       g.kind = "string"}}
        \cup {NamespaceOf(insight)}

\* whether the insight passes the three controls
Passes(insight, search, category, source) ==
    /\ Len(category) = 0 \/ Get(insight, P_category) = Str(category)
    /\ Len(source) = 0 \/ NamespaceOf(insight) = source
    /\ Len(search) = 0
          \/ \E f \in SearchedFields(insight) :
                Includes(ToLowerCase(f), ToLowerCase(search))

\* the insights that pass the three controls, in the order of the collection
RECURSIVE Passing(_, _, _, _)
Passing(all, search, category, source) ==
    IF Len(all) = 0 THEN <<>>
    ELSE (IF Passes(Head(all), search, category, source) THEN <<Head(all)>> ELSE <<>>)
         \o Passing(Tail(all), search, category, source)

\* the rows filterTable gives for the controls, {} when it throws
FilterResult(search, category, source) ==
    LET filtered == FilteredInsights(insights, ToLowerCase(search), category, source)
    IN  IF filtered.raised THEN {} ELSE Range(filtered.value)

FilterCompletes(search, category, source) ==
    ~FilteredInsights(insights, ToLowerCase(search), category, source).raised

\* C13: after filterTable the table shows exactly the insights that pass the
\* category filter, the source filter and the search term (a case-insensitive
\* substring of content, category or source); for every setting of the
\* controls the filter completes, the result with both filters is within the
\* result with either filter alone, and each is within the unfiltered result.
C13_FilterKeeps ==
    /\ lastCall.op = "filter" =>
          /\ ~lastCall.raised
          /\ tableRows = Passing(insights, searchInput, categoryFilter, sourceFilter)
    /\ \A search \in SearchValues, category \in CategoryValues, source \in SourceValues :
          /\ FilterCompletes(search, category, source)
          /\ FilterResult(search, category, source)
                \subseteq FilterResult(search, category, <<>>)
          /\ FilterResult(search, category, source)
                \subseteq FilterResult(search, <<>>, source)
          /\ FilterResult(search, category, <<>>) \subseteq FilterResult(search, <<>>, <<>>)
          /\ FilterResult(search, <<>>, source) \subseteq FilterResult(search, <<>>, <<>>)
          /\ FilterResult(search, <<>>, <<>>) \subseteq Range(insights)

----------------------------------------------------------------------------
(* Claim C14 *)

\* the order of two values of a column: -1, 0 or 1, ascending
KeyOrder(x, y, columnKey) ==
    IF columnKey \in {P_content, P_category}
    THEN LocaleCompare(x.val, y.val)
    ELSE IF columnKey = P_chat_timestamp
    THEN Sign(TimeOf(x).val - TimeOf(y).val)
    ELSE Sign(x.val - y.val)

\* whether the rows that have a value in the column follow one another in
\* the direction
OrderedBy(rows, columnKey, direction) ==
    \A i, j \in 1..Len(rows) :
        (/\ i < j
         /\ Get(rows[i], columnKey) # Undefined
         /\ Get(rows[j], columnKey) # Undefined)
        => IF direction = "asc"
           THEN KeyOrder(Get(rows[i], columnKey), Get(rows[j], columnKey), columnKey) <= 0
           ELSE KeyOrder(Get(rows[i], columnKey), Get(rows[j], columnKey), columnKey) >= 0

\* what a click on a header does to the sort state and to the rows shown
SortedByClick ==
    lastCall'.op = "sort" =>
        /\ currentSortColumn' = lastCall'.text
        /\ currentSortDirection' =
               IF currentSortColumn = lastCall'.text
               THEN (IF currentSortDirection = "asc" THEN "desc" ELSE "asc")
               ELSE "asc"
        /\ ~lastCall'.raised
        /\ Len(tableRows') = Len(tableRows)
        /\ Range(tableRows') = Range(tableRows)
        /\ OrderedBy(tableRows', currentSortColumn', currentSortDirection')

\* C14: a click on a header keeps the column and flips the direction when
\* the column is the active one, and otherwise makes the column active with
\* direction asc; the rows then shown are the rows shown before, ordered by
\* that column in that direction.
C14_SortState == [][SortedByClick]_vars

----------------------------------------------------------------------------
(* Claim C15 *)

\* a source that fails: the fetch rejects, the response is not ok, or its
\* body does not parse
SourceFails(resp) == resp.status # "ok" \/ resp.body = BadJson

\* the records a parsed document holds under a key, none when it holds none
RecordsUnder(data, key) ==
    IF data.kind = "object" /\ Get(data, key).kind = "array"
    THEN Get(data, key).val
    ELSE <<>>

\* C15: whichever of the three sources fail (fetch rejection, non-ok
\* response or JSON parse error), AnchorsModule.loadData does not throw, a
\* failing source ends as an empty collection, a succeeding source ends with
\* its loaded records, and pendingInsights is computed from the resulting
\* collections.
C15_SourcesFailIndependently ==
    lastCall.op = "anchorsLoad" =>
        /\ ~lastCall.raised
        /\ anchors = IF SourceFails(anchorsResp) THEN <<>>
                     ELSE RecordsUnder(anchorsResp.body, P_anchors)
        /\ anchorsInsights = IF SourceFails(insightsResp) THEN <<>>
                             ELSE Resolved(insightsResp.body)
        /\ rejected = IF SourceFails(rejectedResp) THEN <<>>
                      ELSE RecordsUnder(rejectedResp.body, P_rejected)
        /\ pendingInsights = CalculatePending(anchors, anchorsInsights, rejected).value

----------------------------------------------------------------------------
(* ConversationsModule.loadData and loadConversations *)

P_synced_conversations == <<"s", "y", "n", "c", "e", "d", "_", "c", "o", "n", "v", "e", "r", "s", "a", "t", "i", "o", "n", "s">>
P_stats == <<"s", "t", "a", "t", "s">>
P_total_messages == <<"t", "o", "t", "a", "l", "_", "m", "e", "s", "s", "a", "g", "e", "s">>
P_archive_path == <<"a", "r", "c", "h", "i", "v", "e", "_", "p", "a", "t", "h">>
P_conversation == <<"c", "o", "n", "v", "e", "r", "s", "a", "t", "i", "o", "n">>
P_title == <<"t", "i", "t", "l", "e">>

\* the tools, in the order loadData loads them
Tools == <<"claude", "gemini">>

ToolKey(tool) == IF tool = "claude" THEN <<"c", "l", "a", "u", "d", "e">> ELSE <<"g", "e", "m", "i", "n", "i">>

SyncDirectory == <<"a", "i", "-", "m", "e", "m", "o", "r", "y", "-", "s", "y", "n", "c">>
ArchiveDirectory == <<"a", "r", "c", "h", "i", "v", "e">>

\* whether /ai-memory-sync[\/\\]archive.*/ matches at position i of the path
MatchesAt(path, i) ==
    LET afterSync == i + Len(SyncDirectory)
    IN  /\ afterSync + Len(ArchiveDirectory) <= Len(path)
        /\ SubSeq(path, i, afterSync - 1) = SyncDirectory
        /\ path[afterSync] \in {"/", "\\"}
        /\ SubSeq(path, afterSync + 1, afterSync + Len(ArchiveDirectory)) = ArchiveDirectory

\* metadata.archive_path.match(...): the match, from its first position to
\* the end of the path, or null
PathMatch(path) ==
    IF \E i \in 1..Len(path) : MatchesAt(path, i)
    THEN Ok(SubSeq(path, CHOOSE i \in 1..Len(path) :
                             /\ MatchesAt(path, i)
                             /\ \A j \in 1..(i - 1) : ~MatchesAt(path, j),
                   Len(path)))
    ELSE Threw

\* pathMatch[0].replace(/\\/g, '/')
ReplaceBackslashes(t) == [i \in 1..Len(t) |-> IF t[i] = "\\" THEN "/" ELSE t[i]]

\* this.conversations as loadConversations builds it: the keys in insertion
\* order and the value of each key
EmptyMap == [keys |-> <<>>, records |-> <<>>]

\* this.conversations.set(id, value): a key already present keeps its place
\* and takes the new value
MapSet(map, id, value) ==
    [keys |-> IF id \in Range(map.keys) THEN map.keys ELSE Append(map.keys, id),
     records |-> [k \in (DOMAIN map.records) \cup {id} |->
                     IF k = id THEN value ELSE map.records[k]]]

\* the body of the for loop for one entry of the index: the try block sets
\* the conversation, and leaves the map as it is when the path does not
\* match (continue), when archive_path is no string, when the fetch rejects
\* or when the body does not parse (catch)
LoadOne(map, tool, id, metadata, arch) ==
    LET path == Get(metadata, P_archive_path)
    IN  IF path.kind # "string" THEN map
        ELSE IF PathMatch(path.val).raised THEN map
        ELSE LET relativePath == ReplaceBackslashes(PathMatch(path.val).value)
                 response == arch[relativePath]
             IN  IF response.status = "reject" THEN map
                 ELSE IF response.body = BadJson THEN map
                 ELSE MapSet(map, id,
                             [conversation |-> Get(response.body, P_conversation),
                              metadata |-> metadata,
                              tool |-> tool])

\* the for loop over Object.entries(syncedConversations), from entry k on
RECURSIVE LoadEntries(_, _, _, _, _)
LoadEntries(map, tool, synced, k, arch) ==
    IF k > Len(synced.val) THEN map
    ELSE LoadEntries(LoadOne(map, tool, synced.val[k][1], synced.val[k][2], arch),
                     tool, synced, k + 1, arch)

\* loadConversations(tool): throws before the loop when the index has no
\* synced_conversations or no entry for the tool
LoadConversations(map, tool, syncStatus, arch) ==
    LET all == Get(syncStatus, P_synced_conversations)
    IN  IF Nullish(all) THEN Threw
        ELSE IF Get(all, ToolKey(tool)).kind # "object" THEN Threw
        ELSE Ok(LoadEntries(map, tool, Get(all, ToolKey(tool)), 1, arch))

\* updateStats: syncStatus.stats.total_messages.toLocaleString() throws when
\* the index is null or has no stats or no total_messages
UpdateStatsCompletes(syncStatus) ==
    /\ ~Nullish(syncStatus)
    /\ ~Nullish(Get(syncStatus, P_stats))
    /\ ~Nullish(Get(Get(syncStatus, P_stats), P_total_messages))

\* renderConversationList with the filter 'all' and no search term: every
\* conversation of the map is listed; reading conv.conversation.updated or
\* .title throws when a value has no conversation
RenderConversationList(map) ==
    IF \E id \in DOMAIN map.records : Nullish(map.records[id].conversation)
    THEN [raised |-> TRUE, items |-> {}]
    ELSE [raised |-> FALSE, items |-> Range(map.keys)]

LoadResult(raised, map, items) ==
    [raised |-> raised, keys |-> map.keys, records |-> map.records, items |-> items]

\* the try block of loadData, up to the statement that throws
LoadDataBody(sync, arch) ==
    IF sync.status = "reject" THEN LoadResult(TRUE, EmptyMap, {})
    ELSE IF sync.body = BadJson THEN LoadResult(TRUE, EmptyMap, {})
    ELSE IF ~UpdateStatsCompletes(sync.body) THEN LoadResult(TRUE, EmptyMap, {})
    ELSE LET claude == LoadConversations(EmptyMap, Tools[1], sync.body, arch)
         IN  IF claude.raised THEN LoadResult(TRUE, EmptyMap, {})
             ELSE LET gemini == LoadConversations(claude.value, Tools[2], sync.body, arch)
                  IN  IF gemini.raised THEN LoadResult(TRUE, claude.value, {})
                      ELSE LET list == RenderConversationList(gemini.value)
                           IN  LoadResult(list.raised, gemini.value, list.items)

\* the block without its try/catch
Caught_Rethrows(result) == result

\* a try/catch around a block whose handler does not throw: what the block
\* did stays, the exception goes no further
Caught(result) == [result EXCEPT !.raised = FALSE]

\* ConversationsModule.loadData
ConversationsLoadData(sync, arch) == Caught(LoadDataBody(sync, arch))

----------------------------------------------------------------------------
(* AIMemoryHub.init *)

\* loadTab('conversations'): the module's init inside loadTab's try/catch
LoadTabConversations(sync, arch) == Caught(ConversationsLoadData(sync, arch))

\* await this.loadTab('conversations'), the first await of init; init
\* rejects here if loadTab does
LoadConversationsTab ==
    /\ appStep = "created"
    /\ LET loaded == LoadTabConversations(syncResp, archiveResps)
       IN  /\ conversations' = loaded.keys
           /\ conversationRecords' = loaded.records
           /\ conversationItems' = loaded.items
           /\ appStep' = IF loaded.raised THEN "rejected" ELSE "conversations"
           /\ lastCall' = [op |-> "loadTab", conv |-> <<>>, insight |-> 0,
                           text |-> <<>>, raised |-> loaded.raised]
    /\ UNCHANGED <<insights, panelVars, fetchVars, anchorsVars, similar, viewVars,
                   tabVars, reviewVars>>

\* await this.preloadInsights(): InsightsModule.init({render: false}) inside
\* the try/catch of loadTab and that of preloadInsights
PreloadInsights ==
    /\ appStep = "conversations"
    /\ LET loaded == Caught(Caught(Ok(LoadedInsights(InsightsResponse))))
       IN  /\ insights' = loaded.value
           /\ appStep' = IF loaded.raised THEN "rejected" ELSE "initialized"
           /\ lastCall' = [op |-> "preload", conv |-> <<>>, insight |-> 0,
                           text |-> <<>>, raised |-> loaded.raised]
    /\ UNCHANGED <<conversations, conversationRecords, conversationItems,
                   panelVars, fetchVars, anchorsVars, similar, viewVars,
                   tabVars, reviewVars>>

----------------------------------------------------------------------------
(* The sync index and the archive files *)

MaxIndexed == 2

IndexedIds == {<<"a">>, <<"b">>}

\* how the sync tool wrote a path: with slashes, with backslashes, or a
\* path outside the archive
PathStyles == {"slashes", "backslashes", "elsewhere"}

FileOf(tool, id) == ToolKey(tool) \o <<"/">> \o id

ArchivePath(tool, id, style) ==
    CASE style = "slashes" ->
            <<"/", "s", "/">> \o SyncDirectory \o <<"/">> \o ArchiveDirectory
                \o <<"/">> \o FileOf(tool, id)
      [] style = "backslashes" ->
            <<"C", ":", "\\">> \o SyncDirectory \o <<"\\">> \o ArchiveDirectory
                \o <<"\\">> \o ToolKey(tool) \o <<"\\">> \o id
      [] style = "elsewhere" ->
            <<"/", "s", "/">> \o ArchiveDirectory \o <<"/">> \o FileOf(tool, id)

\* the path fetch is given for an archive file inside the archive
RelativePathOf(tool, id) ==
    SyncDirectory \o <<"/">> \o ArchiveDirectory \o <<"/">> \o FileOf(tool, id)

\* the index of one tool: entries with distinct ids
ToolIndexes ==
    {ix \in SeqsUpTo(IndexedIds \X PathStyles, MaxIndexed) :
        \A i, j \in 1..Len(ix) : i # j => ix[i][1] # ix[j][1]}

IndexObject(tool, ix) ==
    JObj([k \in 1..Len(ix) |->
            <<ix[k][1],
              JObj(<<<<P_archive_path, Str(ArchivePath(tool, ix[k][1], ix[k][2]))>>>>)>>])

\* what a sync-status document holds for a tool: its index, or nothing
\* when the document does not name the tool
NamedIndexes ==
    {[named |-> TRUE, entries |-> ix] : ix \in ToolIndexes}
        \cup {[named |-> FALSE, entries |-> <<>>]}

\* a sync-status document, with or without stats
SyncDoc(claude, gemini, withStats) ==
    JObj(<<<<P_synced_conversations,
             JObj((IF claude.named
                   THEN <<<<ToolKey(Tools[1]), IndexObject(Tools[1], claude.entries)>>>>
                   ELSE <<>>)
                  \o (IF gemini.named
                      THEN <<<<ToolKey(Tools[2]), IndexObject(Tools[2], gemini.entries)>>>>
                      ELSE <<>>))>>>>
         \o (IF withStats
             THEN <<<<P_stats, JObj(<<<<P_total_messages, JNum(3)>>>>)>>>>
             ELSE <<>>))

SyncDocs ==
    {SyncDoc(t[1], t[2], t[3]) :
        t \in {u \in NamedIndexes \X NamedIndexes \X BOOLEAN :
                  Len(u[1].entries) + Len(u[2].entries) <= MaxIndexed}}

SyncResps ==
    {Rejects, Answers("notok", BadJson), Answers("ok", JNull)}
    \cup {Answers("ok", d) : d \in SyncDocs}

\* an archive file with a conversation, and one without
ArchiveDoc(path) == JObj(<<<<P_conversation, JObj(<<<<P_title, Str(path)>>>>)>>>>)

\* a missing file (an error page that is no JSON), a file with a
\* conversation, a file without one
ArchiveAnswers(path) ==
    {Answers("notok", BadJson), Answers("ok", ArchiveDoc(path)),
     Answers("ok", JObj(<<>>))}

\* the relative paths the index of a response leads to
IndexedPaths(sync) ==
    IF sync.status # "ok" \/ sync.body.kind # "object" THEN {}
    ELSE {RelativePathOf(Tools[t], id) :
            <<t, id>> \in {e \in (1..Len(Tools)) \X IndexedIds :
                LET ix == Get(Get(sync.body, P_synced_conversations), ToolKey(Tools[e[1]]))
                IN  /\ Get(ix, e[2]) # Undefined
                    /\ ~PathMatch(Get(Get(ix, e[2]), P_archive_path).val).raised}}

\* the insights documents at start-up
AppInsightsResps ==
    {Answers("notok", BadJson), Answers("ok", Shaped(<<TRUE, TRUE>>, "insights-map"))}

AppFallbackResps == {Rejects, Answers("ok", Shaped(<<TRUE>>, "insights-map"))}

InitApp ==
    /\ syncResp \in SyncResps
    /\ archiveResps \in
          {f \in [IndexedPaths(syncResp) -> UNION {ArchiveAnswers(p) : p \in IndexedPaths(syncResp)}] :
              \A p \in IndexedPaths(syncResp) : f[p] \in ArchiveAnswers(p)}
    /\ insightsResp \in AppInsightsResps
    /\ fallbackResp \in (IF insightsResp.status = "ok" THEN {Rejects} ELSE AppFallbackResps)
    /\ anchorsResp = Rejects
    /\ rejectedResp = Rejects
    /\ insights = <<>>
    /\ conversations = <<>>
    /\ PanelInit
    /\ lastCall = NoCall
    /\ AnchorsInit
    /\ similar = <<>>
    /\ ViewInit
    /\ AppCreated
    /\ TabsCreated
    /\ AnchorsCreated

NextApp ==
    \/ LoadConversationsTab
    \/ PreloadInsights

SpecApp == InitApp /\ [][NextApp]_vars

----------------------------------------------------------------------------
(* Claim C16 *)

\* the ids the sync index lists for a tool
IndexedUnder(tool) ==
    IF SourceFails(syncResp) THEN {}
    ELSE Range(ObjectKeys(Get(Get(syncResp.body, P_synced_conversations), ToolKey(tool))))

\* the insights load fails on both paths
InsightsLoadFails == SourceFails(insightsResp) /\ SourceFails(fallbackResp)

\* the sync-status fetch fails, or the loading of some indexed conversation does
ConversationLoadFails ==
    \/ SourceFails(syncResp)
    \/ \E path \in DOMAIN archiveResps : SourceFails(archiveResps[path])

\* a conversation source with nothing wrong: the index names both tools and
\* has its stats, and every indexed conversation, indexed once, has its
\* archive file
ConversationSourceIntact ==
    /\ ~SourceFails(syncResp)
    /\ Get(syncResp.body, P_stats) # Undefined
    /\ \A t \in 1..Len(Tools) :
          /\ Get(Get(syncResp.body, P_synced_conversations), ToolKey(Tools[t])) # Undefined
          /\ \A id \in IndexedUnder(Tools[t]) :
                /\ RelativePathOf(Tools[t], id) \in DOMAIN archiveResps
                /\ archiveResps[RelativePathOf(Tools[t], id)]
                      = Answers("ok", ArchiveDoc(RelativePathOf(Tools[t], id)))
    /\ IndexedUnder(Tools[1]) \cap IndexedUnder(Tools[2]) = {}

\* C16: at start-up a failure of the insights load on both paths leaves the
\* conversations loaded and listed, a failure of the sync-status fetch or of
\* conversation loading leaves the insights preloaded, and init does not
\* reject in either case.
C16_StartupSourcesIndependent ==
    /\ appStep # "rejected"
    /\ lastCall.op \in {"loadTab", "preload"} => ~lastCall.raised
    /\ (appStep = "initialized" /\ InsightsLoadFails /\ ConversationSourceIntact) =>
          /\ Range(conversations) = IndexedUnder(Tools[1]) \cup IndexedUnder(Tools[2])
          /\ conversationItems = Range(conversations)
    /\ (appStep = "conversations" /\ ConversationLoadFails) => ENABLED PreloadInsights
    /\ (appStep = "initialized" /\ ConversationLoadFails
           /\ ~SourceFails(InsightsResponse)) =>
          insights = Resolved(InsightsResponse.body)

\* both insights paths fail and two conversations are loaded and listed
C16_Witness ==
    /\ appStep = "initialized"
    /\ InsightsLoadFails
    /\ ConversationSourceIntact
    /\ insights = <<>>
    /\ Len(conversations) = MaxIndexed
    /\ conversationItems = Range(conversations)

----------------------------------------------------------------------------
(* Claim C17 *)

\* the metadata the sync index holds for a conversation of a tool
MetadataOf(tool, id) ==
    Get(Get(Get(syncResp.body, P_synced_conversations), ToolKey(tool)), id)

\* the indexed conversations whose archive path matched and whose archive
\* file was fetched and parsed, each with its tool
LoadableConversations ==
    {c \in {<<Tools[t], id>> : t \in 1..Len(Tools), id \in IndexedIds} :
        /\ c[2] \in IndexedUnder(c[1])
        /\ ~PathMatch(Get(MetadataOf(c[1], c[2]), P_archive_path).val).raised
        /\ ~SourceFails(archiveResps[RelativePathOf(c[1], c[2])])}

\* the conversations the module holds, each with its tool tag
LoadedConversations ==
    {<<conversationRecords[id].tool, id>> : id \in Range(conversations)}

\* C17: after loadData the loaded conversations are exactly the
\* conversations the sync index lists, for claude and for gemini, whose
\* archive path matched and whose archive file was fetched and parsed, each
\* with its own tool tag.
C17_LoadedExactlyIndexed ==
    appStep # "created" => LoadedConversations = LoadableConversations

----------------------------------------------------------------------------
(* The context panel: its listeners, the pin and the hide timer *)

\* the hover listeners without their test of isPinned()
HoverAllowed_Always(isPinned) == TRUE

\* this.contextPanel && !this.contextPanel.isPinned(), the panel being there
HoverAllowed(isPinned) == ~isPinned

\* mouseenter on a conversation item, the pointer being outside the panel
HoverConversation(id) ==
    /\ ~mouseInPanel
    /\ IF HoverAllowed(pinned)
       THEN ShowRelatedInsights(id)
       ELSE /\ lastCall' = [op |-> "hover", conv |-> id, insight |-> 0,
                            text |-> <<>>, raised |-> FALSE]
            /\ UNCHANGED <<resolverVars, panelVars, fetchVars, appVars, tabVars, reviewVars, anchorsVars,
                           similar, viewVars>>

\* mouseenter on a row of the insights table
HoverInsight(k) ==
    /\ ~mouseInPanel
    /\ IF HoverAllowed(pinned)
       THEN ShowSourceConversations(k)
       ELSE /\ lastCall' = [op |-> "hover", conv |-> <<>>, insight |-> k,
                            text |-> <<>>, raised |-> FALSE]
            /\ UNCHANGED <<resolverVars, panelVars, fetchVars, appVars, tabVars, reviewVars, anchorsVars,
                           similar, viewVars>>

\* loadConversation(id), on a click on a conversation item: it shows the
\* related insights whether the panel is pinned or not
LoadConversation(id) == ~mouseInPanel /\ ShowRelatedInsights(id)

PanelCall(op) == [op |-> op, conv |-> <<>>, insight |-> 0, text |-> <<>>, raised |-> FALSE]

\* mouseenter on the panel: cancelHideTimeout
PanelMouseEnter ==
    /\ ~mouseInPanel
    /\ mouseInPanel' = TRUE
    /\ hideTimeout' = FALSE
    /\ lastCall' = PanelCall("mouseenter")
    /\ UNCHANGED <<panelTitle, panelContent, panelVisible, pinned, resolverVars,
                   fetchVars, appVars, tabVars, reviewVars, anchorsVars, similar, viewVars>>

\* mouseleave on the panel: scheduleHide unless pinned
PanelMouseLeave ==
    /\ mouseInPanel
    /\ mouseInPanel' = FALSE
    /\ hideTimeout' = IF pinned THEN hideTimeout ELSE TRUE
    /\ lastCall' = PanelCall("mouseleave")
    /\ UNCHANGED <<panelTitle, panelContent, panelVisible, pinned, resolverVars,
                   fetchVars, appVars, tabVars, reviewVars, anchorsVars, similar, viewVars>>

\* togglePin leaving the timer as it finds it when the panel gets pinned
PendingAfterToggle_Kept(nowPinned, pending) == ~nowPinned \/ pending

\* togglePin: cancelHideTimeout when the panel is now pinned, scheduleHide
\* when it is not
PendingAfterToggle(nowPinned, pending) == ~nowPinned

\* a click on the pin button
TogglePin ==
    /\ pinned' = ~pinned
    /\ hideTimeout' = PendingAfterToggle(~pinned, hideTimeout)
    /\ lastCall' = PanelCall("togglePin")
    /\ UNCHANGED <<panelTitle, panelContent, panelVisible, mouseInPanel, resolverVars,
                   fetchVars, appVars, tabVars, reviewVars, anchorsVars, similar, viewVars>>

\* ContextPanel.hide, on a click on the close button
ClickClose ==
    /\ panelVisible' = FALSE
    /\ hideTimeout' = FALSE
    /\ lastCall' = PanelCall("close")
    /\ UNCHANGED <<panelTitle, panelContent, pinned, mouseInPanel, resolverVars,
                   fetchVars, appVars, tabVars, reviewVars, anchorsVars, similar, viewVars>>

\* a timer callback that hides nothing
TimerHides_Never(isPinned) == FALSE

\* if (!this.pinned) in the callback of scheduleHide
TimerHides(isPinned) == ~isPinned

\* the hide timer fires, 500 ms after scheduleHide set it
TimerFires ==
    /\ hideTimeout
    /\ panelVisible' = IF TimerHides(pinned) THEN FALSE ELSE panelVisible
    /\ hideTimeout' = FALSE
    /\ lastCall' = PanelCall("timer")
    /\ UNCHANGED <<panelTitle, panelContent, pinned, mouseInPanel, resolverVars,
                   fetchVars, appVars, tabVars, reviewVars, anchorsVars, similar, viewVars>>

MaxPanelInsights == 2

\* an insight that cites the conversation "a", and one without evidence
PanelInsights ==
    LET Kinds == {[evidence |-> Arr(<<Str(<<"c", "/", "a">>)>>), strength |-> 1],
                  [evidence |-> Arr(<<>>), strength |-> 2]}
    IN  {[k \in 1..Len(f) |-> [id |-> k, evidence |-> f[k].evidence,
                               strength |-> f[k].strength]] :
            f \in SeqsUpTo(Kinds, MaxPanelInsights)}

InitPanel ==
    /\ insights \in PanelInsights
    /\ conversations = <<<<"a">>, <<"a", "b">>>>
    /\ PanelInit
    /\ lastCall = NoCall
    /\ NothingFetched
    /\ AnchorsInit
    /\ similar = <<>>
    /\ ViewInit
    /\ AppCreated
    /\ TabsCreated
    /\ AnchorsCreated

NextPanel ==
    \/ \E i \in 1..Len(conversations) : HoverConversation(conversations[i])
    \/ \E k \in 1..Len(insights) : HoverInsight(k)
    \/ \E i \in 1..Len(conversations) : LoadConversation(conversations[i])
    \/ PanelMouseEnter
    \/ PanelMouseLeave
    \/ TogglePin
    \/ ClickClose
    \/ TimerFires

SpecPanel == InitPanel /\ [][NextPanel]_vars

\* whether the handler a call names went as far as show(): the resolver
\* found something for its argument
Shown(call) ==
    CASE call.op = "related" ->
            /\ ~RelatedFilter(insights, call.conv).raised
            /\ Len(RelatedFilter(insights, call.conv).items) > 0
      [] call.op = "source" ->
            /\ ~SourceLookup(insights[call.insight], conversations).raised
            /\ Len(SourceLookup(insights[call.insight], conversations).items) > 0
      [] OTHER -> FALSE

\* a step that runs show()
ShowStep == NextPanel /\ Shown(lastCall')

\* scheduleHide with a timer pending: clearTimeout drops the pending timer
\* and setTimeout starts another
Reschedules ==
    /\ hideTimeout
    /\ ~pinned
    /\ ShowStep \/ PanelMouseLeave

\* the browser runs the callback of a pending timer unless the timer is
\* cleared; a timer that is never cleared and never replaced fires
SpecPanelTimed == SpecPanel /\ WF_vars(TimerFires \/ Reschedules)

----------------------------------------------------------------------------
(* Claim C18 *)

\* the panel was shown, or the mouse left it, while it is not pinned
HideScheduled ==
    /\ panelVisible
    /\ ~pinned
    /\ hideTimeout
    /\ lastCall.op \in {"related", "source", "mouseleave"}

\* a show, a mouseenter on the panel, or a click on the pin
Interrupts == ShowStep \/ PanelMouseEnter \/ TogglePin

\* C18: when the panel is shown, or the mouse leaves it, while it is not
\* pinned, and no show, mouseenter on the panel or pin follows, the hide
\* timer fires and the panel becomes hidden. (Either such events go on for
\* ever, or every scheduled hide leads to a hidden panel or to a mouseenter
\* or a pin.)
C18_AutoHides ==
    \/ []<><<Interrupts>>_vars
    \/ HideScheduled ~> (~panelVisible \/ lastCall.op \in {"mouseenter", "togglePin"})

\* the timer has fired and hidden the panel that a hover had shown
C18_Witness ==
    /\ lastCall.op = "timer"
    /\ ~panelVisible
    /\ ~pinned
    /\ ~hideTimeout
    /\ Len(panelContent) > 0

----------------------------------------------------------------------------
(* Claim C19 *)

\* a step of a show, a hover, a mouseenter or mouseleave on the panel, or
\* the timer: any step but a click on the pin or on the close button
KeepsPinned == lastCall'.op \notin {"togglePin", "close"}

\* a pinned visible panel is visible after the step
StaysVisible == (pinned /\ panelVisible /\ KeepsPinned) => panelVisible'

\* C19: in every reachable state in which the panel is pinned no hide timer
\* is pending, and over show, mouseenter, mouseleave and timer steps a
\* pinned visible panel stays visible until it is unpinned or hidden by the
\* close button.
C19_PinKeepsOpen ==
    /\ [](pinned => ~hideTimeout)
    /\ [][StaysVisible]_vars

\* the mouse has left a pinned visible panel, and no timer was set
C19_Witness ==
    /\ lastCall.op = "mouseleave"
    /\ pinned
    /\ panelVisible
    /\ ~hideTimeout
    /\ Len(panelContent) > 0

----------------------------------------------------------------------------
(* Claim C20 *)

\* the resolver finds related insights for the conversation
RelatedFound(id) ==
    /\ ~RelatedFilter(insights, id).raised
    /\ Len(RelatedFilter(insights, id).items) > 0

\* the resolver finds source conversations for the insight
SourceFound(k) ==
    /\ ~SourceLookup(insights[k], conversations).raised
    /\ Len(SourceLookup(insights[k], conversations).items) > 0

\* what a hover may do to the panel: make it appear only when unpinned
\* with something found, and otherwise leave it as it is
HoverEffect(found) ==
    /\ (panelVisible' /\ ~panelVisible) => (~pinned /\ found)
    /\ (pinned \/ ~found) => UNCHANGED <<panelTitle, panelContent, panelVisible>>

HoverFrame ==
    /\ \A i \in 1..Len(conversations) :
          HoverConversation(conversations[i]) =>
              HoverEffect(RelatedFound(conversations[i]))
    /\ \A k \in 1..Len(insights) :
          HoverInsight(k) => HoverEffect(SourceFound(k))

\* C20: a hover on a conversation item or on an insight row makes the panel
\* appear only if the panel is not pinned and the resolver finds something
\* for the hovered item; when the panel is pinned or nothing is found the
\* hover leaves the panel's title, content and visibility unchanged.
C20_HoverFrame == [][HoverFrame]_vars

\* a hover on a conversation that has related insights, while the panel is
\* pinned and shows source conversations: the panel is as it was
C20_Witness ==
    /\ lastCall.op = "hover"
    /\ Len(lastCall.conv) > 0
    /\ RelatedFound(lastCall.conv)
    /\ pinned
    /\ panelVisible
    /\ panelTitle = "Source Conversations"

----------------------------------------------------------------------------
(* AIMemoryHub: tab navigation and the lazy loading of the modules *)

Tabs == {"conversations", "insights"}

\* loadTab without its test of the module field
ModuleMissing_Always(module) == TRUE

\* !this.conversationsModule, !this.insightsModule
ModuleMissing(module) == module = "null"

\* new Module(container, contextPanel) followed by the call of its init
Constructed(counts, tab) == [counts EXCEPT ![tab] = @ + 1]

\* InsightsModule.render: the views show this.insights as it is now, loaded
\* or not
RenderedFrom(module, shown) ==
    [state |-> IF module = "ready" THEN "loaded" ELSE "early", insights |-> shown]

TabCall(op, tab) ==
    [op |-> op, conv |-> <<>>, insight |-> 0, text |-> tab, raised |-> FALSE]

\* AIMemoryHub.init up to its first await: setupTabNavigation, then
\* loadTab('conversations') constructs the module and calls its init, which
\* awaits the fetch of the sync index
StartInit ==
    /\ appStep = "created"
    /\ ModuleMissing(conversationsModule)
    /\ conversationsModule' = "loading"
    /\ constructions' = Constructed(constructions, "conversations")
    /\ initCalls' = Constructed(initCalls, "conversations")
    /\ appStep' = "loadingConversations"
    /\ lastCall' = TabCall("init", "conversations")
    /\ UNCHANGED <<resolverVars, conversationRecords, conversationItems, panelVars,
                   fetchVars, anchorsVars, similar, viewVars, reviewVars,
                   currentTab, activeTab, insightsModule, initRender, switchPending,
                   isRendered, renderedViews>>

\* ConversationsModule.init completes; a switchTab that awaited it sets
\* currentTab, and init goes on to preloadInsights, which is
\* loadTab('insights', {render: false, silent: true})
ConversationsLoaded ==
    /\ conversationsModule = "loading"
    /\ LET loaded == LoadTabConversations(syncResp, archiveResps)
       IN  /\ conversations' = loaded.keys
           /\ conversationRecords' = loaded.records
           /\ conversationItems' = loaded.items
    /\ conversationsModule' = "ready"
    /\ currentTab' = IF "conversations" \in switchPending THEN "conversations"
                     ELSE currentTab
    /\ switchPending' = switchPending \ {"conversations"}
    /\ IF appStep = "loadingConversations"
       THEN IF ModuleMissing(insightsModule)
            THEN /\ insightsModule' = "loading"
                 /\ initRender' = FALSE
                 /\ constructions' = Constructed(constructions, "insights")
                 /\ initCalls' = Constructed(initCalls, "insights")
                 /\ appStep' = "preloading"
            ELSE /\ appStep' = "initialized"
                 /\ UNCHANGED <<insightsModule, initRender, constructions, initCalls>>
       ELSE UNCHANGED <<insightsModule, initRender, constructions, initCalls, appStep>>
    /\ lastCall' = TabCall("loaded", "conversations")
    /\ UNCHANGED <<insights, panelVars, fetchVars, anchorsVars, similar, viewVars,
                   reviewVars, activeTab, isRendered, renderedViews>>

\* a click on a tab button: the listener tests targetTab !== currentTab,
\* switchTab marks the tab active and calls loadTab; when loadTab has
\* nothing to await, currentTab is set before any other event is handled
ClickTab(tab) ==
    /\ appStep # "created"
    /\ tab # currentTab
    /\ activeTab' = tab
    /\ lastCall' = TabCall("click", tab)
    /\ IF tab = "conversations"
       THEN IF ModuleMissing(conversationsModule)
            THEN /\ conversationsModule' = "loading"
                 /\ constructions' = Constructed(constructions, tab)
                 /\ initCalls' = Constructed(initCalls, tab)
                 /\ switchPending' = switchPending \cup {tab}
                 /\ UNCHANGED <<currentTab, insightsModule, initRender, isRendered,
                                renderedViews>>
            ELSE /\ currentTab' = tab
                 /\ UNCHANGED <<conversationsModule, constructions, initCalls,
                                switchPending, insightsModule, initRender, isRendered,
                                renderedViews>>
       ELSE IF ModuleMissing(insightsModule)
            THEN /\ insightsModule' = "loading"
                 /\ initRender' = TRUE
                 /\ constructions' = Constructed(constructions, tab)
                 /\ initCalls' = Constructed(initCalls, tab)
                 /\ switchPending' = switchPending \cup {tab}
                 /\ UNCHANGED <<currentTab, conversationsModule, isRendered,
                                renderedViews>>
            ELSE /\ currentTab' = tab
                 /\ isRendered' = TRUE
                 /\ renderedViews' = IF isRendered THEN renderedViews
                                     ELSE RenderedFrom(insightsModule, insights)
                 /\ UNCHANGED <<conversationsModule, constructions, initCalls,
                                switchPending, insightsModule, initRender>>
    /\ UNCHANGED <<resolverVars, appVars, panelVars, fetchVars, anchorsVars, similar,
                   viewVars, reviewVars>>

\* InsightsModule.init completes: loadData has set this.insights, then
\* render() runs or isRendered is set to false, by the render option of
\* this call; the switchTab or the preload that awaited it goes on
InsightsLoaded ==
    /\ insightsModule = "loading"
    /\ insights' = LoadedInsights(InsightsResponse)
    /\ insightsModule' = "ready"
    /\ isRendered' = initRender
    /\ renderedViews' = IF initRender THEN RenderedFrom("ready", insights')
                        ELSE renderedViews
    /\ currentTab' = IF "insights" \in switchPending THEN "insights" ELSE currentTab
    /\ switchPending' = switchPending \ {"insights"}
    /\ appStep' = IF appStep = "preloading" THEN "initialized" ELSE appStep
    /\ lastCall' = TabCall("loaded", "insights")
    /\ UNCHANGED <<conversations, conversationRecords, conversationItems, panelVars,
                   fetchVars, anchorsVars, similar, viewVars, reviewVars, activeTab,
                   conversationsModule, initRender, constructions, initCalls>>

\* one sync index with a conversation of claude, and none
TabSyncResps ==
    {Rejects,
     Answers("ok", SyncDoc([named |-> TRUE, entries |-> <<<<<<"a">>, "slashes">>>>],
                           [named |-> TRUE, entries |-> <<>>], TRUE))}

InitTabs ==
    /\ syncResp \in TabSyncResps
    /\ archiveResps \in
          {f \in [IndexedPaths(syncResp) -> UNION {ArchiveAnswers(p) : p \in IndexedPaths(syncResp)}] :
              \A p \in IndexedPaths(syncResp) : f[p] \in ArchiveAnswers(p)}
    /\ insightsResp \in AppInsightsResps
    /\ fallbackResp \in (IF insightsResp.status = "ok" THEN {Rejects} ELSE AppFallbackResps)
    /\ anchorsResp = Rejects
    /\ rejectedResp = Rejects
    /\ insights = <<>>
    /\ conversations = <<>>
    /\ PanelInit
    /\ lastCall = NoCall
    /\ AnchorsInit
    /\ similar = <<>>
    /\ ViewInit
    /\ AppCreated
    /\ TabsCreated
    /\ AnchorsCreated

NextTabs ==
    \/ StartInit
    \/ ConversationsLoaded
    \/ \E tab \in Tabs : ClickTab(tab)
    \/ InsightsLoaded

SpecTabs == InitTabs /\ [][NextTabs]_vars

----------------------------------------------------------------------------
(* Claim C21 *)

\* C21: over any interleaving of tab clicks with the initial conversations
\* load and the insights preload, ConversationsModule and InsightsModule are
\* each constructed at most once, and init of each is called at most once.
C21_ModulesLoadOnce ==
    \A tab \in Tabs : constructions[tab] <= 1 /\ initCalls[tab] <= 1

\* the insights module was constructed by a click during the conversations
\* load; the preload found it and init came to its end
C21_Witness ==
    /\ appStep = "initialized"
    /\ initRender
    /\ insightsModule = "ready"
    /\ conversationsModule = "ready"
    /\ constructions = [conversations |-> 1, insights |-> 1]
    /\ initCalls = [conversations |-> 1, insights |-> 1]
    /\ currentTab = "conversations"
    /\ activeTab = "conversations"

----------------------------------------------------------------------------
(* AnchorsModule: the review session *)

MaxPending == 4
MaxListeners == 4
MaxKeyHandlers == 2
MaxTimers == 2
MaxDecisions == 2

P_confidence == <<"c", "o", "n", "f", "i", "d", "e", "n", "c", "e">>

\* the fields of the module a review handler reads and writes
Review ==
    [pendingInsights |-> pendingInsights, currentView |-> currentView,
     reviewIndex |-> reviewIndex, reviewDecisions |-> reviewDecisions,
     advanceTimers |-> advanceTimers, overviewListeners |-> overviewListeners,
     reviewListeners |-> reviewListeners, keyHandlers |-> keyHandlers,
     keyHandler |-> keyHandler, container |-> container, summary |-> summary]

\* a.strength || a.confidence || 0
ReviewStrength(insight) ==
    IF Truthy(Get(insight, P_strength)) THEN Get(insight, P_strength).val
    ELSE IF Truthy(Get(insight, P_confidence)) THEN Get(insight, P_confidence).val
    ELSE 0

\* x placed behind every insight of sorted whose strength is not lower
RECURSIVE InsertPending(_, _)
InsertPending(sorted, x) ==
    IF Len(sorted) = 0 THEN <<x>>
    ELSE IF ReviewStrength(x) - ReviewStrength(Head(sorted)) <= 0
         THEN <<Head(sorted)>> \o InsertPending(Tail(sorted), x)
         ELSE <<x>> \o sorted

\* a sort that keeps the insights that have a strength or a confidence only
RECURSIVE SortPending_ScoredOnly(_)
SortPending_ScoredOnly(pending) ==
    IF Len(pending) = 0 THEN <<>>
    ELSE IF ReviewStrength(pending[Len(pending)]) = 0
         THEN SortPending_ScoredOnly(SubSeq(pending, 1, Len(pending) - 1))
         ELSE InsertPending(SortPending_ScoredOnly(SubSeq(pending, 1, Len(pending) - 1)),
                            pending[Len(pending)])

\* this.pendingInsights.sort((a, b) => strengthB - strengthA): in place,
\* stable, highest strength first
RECURSIVE SortPending(_)
SortPending(pending) ==
    IF Len(pending) = 0 THEN <<>>
    ELSE InsertPending(SortPending(SubSeq(pending, 1, Len(pending) - 1)),
                       pending[Len(pending)])

\* insight.id || insight.insight_id || `insight_${this.reviewIndex}`
ReviewId(insight, index) ==
    IF Truthy(InsightId(insight)) THEN InsightId(insight).val
    ELSE <<"i", "n", "s", "i", "g", "h", "t", "_", Digits[index + 1]>>

\* the counts the two summaries show
DecisionCount(decisions, actions) ==
    Cardinality({i \in 1..Len(decisions) : decisions[i].action \in actions})

SummaryOf(kind, decisions) ==
    [kind |-> kind,
     approved |-> DecisionCount(decisions, {"approve", "approve_edited"}),
     rejected |-> DecisionCount(decisions, {"reject"}),
     skipped |-> DecisionCount(decisions, {"skip"})]

\* attachEventListeners: one more click listener on the container
AttachEventListeners(r) == [r EXCEPT !.overviewListeners = @ + 1]

\* AnchorsModule.render: the overview replaces what the container shows
AnchorsRender(r) ==
    AttachEventListeners([r EXCEPT !.container = [view |-> "overview", card |-> 0]])

\* attachReviewListeners: one more click listener on the container
AttachReviewListeners(r) == [r EXCEPT !.reviewListeners = @ + 1]

\* setupKeyboardShortcuts: a new handler in this.keyHandler, added to document
SetupKeyboardShortcuts(r) == [r EXCEPT !.keyHandlers = @ + 1, !.keyHandler = TRUE]

\* removeKeyboardShortcuts: the handler this.keyHandler holds, if any
RemoveKeyboardShortcuts(r) ==
    IF r.keyHandler THEN [r EXCEPT !.keyHandlers = @ - 1, !.keyHandler = FALSE]
    ELSE r

\* finishReview
FinishReview(r) ==
    AnchorsRender([RemoveKeyboardShortcuts(r) EXCEPT
                      !.currentView = "overview",
                      !.summary = SummaryOf("finish", r.reviewDecisions)])

\* renderReviewInterface: the card of pendingInsights[reviewIndex], or
\* finishReview when there is no such insight
RenderReviewInterface(r) ==
    IF r.reviewIndex < 0 \/ r.reviewIndex >= Len(r.pendingInsights)
    THEN FinishReview(r)
    ELSE AttachReviewListeners([r EXCEPT !.container = [view |-> "review",
                                                         card |-> r.reviewIndex]])

\* startReview
StartReview(r) ==
    IF Len(r.pendingInsights) = 0 THEN r
    ELSE SetupKeyboardShortcuts(
            RenderReviewInterface([r EXCEPT !.pendingInsights = SortPending(@),
                                            !.currentView = "review",
                                            !.reviewIndex = 0,
                                            !.reviewDecisions = <<>>]))

\* navigateReview without its test of the new index
InBounds_Always(newIndex, total) == TRUE

\* newIndex >= 0 && newIndex < this.pendingInsights.length
InBounds(newIndex, total) == newIndex >= 0 /\ newIndex < total

\* navigateReview(delta)
NavigateReview(r, delta) ==
    IF InBounds(r.reviewIndex + delta, Len(r.pendingInsights))
    THEN RenderReviewInterface([r EXCEPT !.reviewIndex = @ + delta])
    ELSE r

\* what approveInsight, skipInsight, rejectInsight and editAndApprove share:
\* the decision is pushed and setTimeout(() => this.navigateReview(1)) set;
\* id is the data-id of the clicked button, Undefined for a key
LogDecision(r, id, action) ==
    LET insightId == IF Truthy(id) THEN id.val
                     ELSE ReviewId(r.pendingInsights[r.reviewIndex + 1], r.reviewIndex)
    IN  [r EXCEPT !.reviewDecisions = Append(@, [insightId |-> insightId,
                                                 action |-> action]),
                  !.advanceTimers = @ + 1]

ApproveInsight(r, id) == LogDecision(r, id, "approve")
SkipInsight(r, id) == LogDecision(r, id, "skip")
RejectInsight(r, id) == LogDecision(r, id, "reject")

\* editAndApprove: nothing when the prompt is cancelled or the text is left
\* as it was
EditAndApprove(r, id, edited) ==
    IF edited THEN LogDecision(r, id, "approve_edited") ELSE r

\* exitReview: the summary is shown if any decision was made
ExitReview(r) ==
    AnchorsRender([RemoveKeyboardShortcuts(r) EXCEPT
                      !.currentView = "overview",
                      !.summary = IF Len(r.reviewDecisions) > 0
                                  THEN SummaryOf("exit", r.reviewDecisions)
                                  ELSE @])

\* the buttons of the review interface and the keys of the shortcuts
ReviewButtons ==
    {"exit-review", "approve-insight", "edit-and-approve", "skip-insight",
     "reject-insight", "prev-insight", "next-insight"}
ReviewKeys == {"ArrowRight", "ArrowLeft", "ArrowDown", "e", "Escape"}
DecisionEvents ==
    {"approve-insight", "skip-insight", "reject-insight",
     "ArrowRight", "ArrowDown", "ArrowLeft"}

\* the data-id the buttons of the card shown carry
CardId(r) ==
    Str(ReviewId(r.pendingInsights[r.container.card + 1], r.container.card))

\* one listener of attachReviewListeners, or of attachEventListeners for
\* start-review, handling a click
ClickListener(r, action, edited) ==
    CASE action = "start-review" -> StartReview(r)
      [] action = "exit-review" -> ExitReview(r)
      [] action = "approve-insight" -> ApproveInsight(r, CardId(r))
      [] action = "edit-and-approve" -> EditAndApprove(r, CardId(r), edited)
      [] action = "skip-insight" -> SkipInsight(r, CardId(r))
      [] action = "reject-insight" -> RejectInsight(r, CardId(r))
      [] action = "prev-insight" -> NavigateReview(r, -1)
      [] action = "next-insight" -> NavigateReview(r, 1)

\* one keyHandler handling a keydown
KeyListener(r, key, edited) ==
    IF r.currentView # "review" THEN r
    ELSE CASE key = "ArrowRight" -> ApproveInsight(r, Undefined)
           [] key = "ArrowLeft" -> RejectInsight(r, Undefined)
           [] key = "ArrowDown" -> SkipInsight(r, Undefined)
           [] key = "e" -> EditAndApprove(r, Undefined, edited)
           [] key = "Escape" -> ExitReview(r)

\* the fields of the module take the values a handler leaves
Becomes(r) ==
    /\ pendingInsights' = r.pendingInsights
    /\ currentView' = r.currentView
    /\ reviewIndex' = r.reviewIndex
    /\ reviewDecisions' = r.reviewDecisions
    /\ advanceTimers' = r.advanceTimers
    /\ overviewListeners' = r.overviewListeners
    /\ reviewListeners' = r.reviewListeners
    /\ keyHandlers' = r.keyHandlers
    /\ keyHandler' = r.keyHandler
    /\ container' = r.container
    /\ summary' = r.summary

ReviewCall(event) ==
    [op |-> event, conv |-> <<>>, insight |-> reviewIndex, text |-> <<>>,
     raised |-> FALSE]

\* how many listeners a click on the button reaches, and whether the
\* counters stay within the bounds of the model when all of them have run
Reaches(action) ==
    IF action = "start-review" THEN overviewListeners ELSE reviewListeners

WithinBounds(event, n) ==
    CASE event = "start-review" ->
            /\ reviewListeners + n <= MaxListeners
            /\ keyHandlers + n <= MaxKeyHandlers
      [] event \in {"exit-review", "Escape"} -> overviewListeners + n <= MaxListeners
      [] event \in {"prev-insight", "next-insight"} -> reviewListeners + n <= MaxListeners
      [] OTHER -> /\ Len(reviewDecisions) + n <= MaxDecisions
                  /\ advanceTimers + n <= MaxTimers

\* the button is in the container and is not disabled
Clickable(action) ==
    CASE action = "start-review" ->
            container.view = "overview" /\ Len(pendingInsights) > 0
      [] action = "prev-insight" -> container.view = "review" /\ reviewIndex # 0
      [] action = "next-insight" ->
            container.view = "review" /\ reviewIndex < Len(pendingInsights) - 1
      [] OTHER -> container.view = "review"

\* a click on a button of the container: every click listener the
\* container has at this moment is going to be called, in turn
Click(action) ==
    /\ dispatch.left = 0
    /\ Clickable(action)
    /\ WithinBounds(action, Reaches(action))
    /\ dispatch' = [event |-> action, left |-> Reaches(action)]
    /\ lastCall' = ReviewCall(action)
    /\ UNCHANGED <<resolverVars, panelVars, fetchVars, appVars, tabVars, similar,
                   viewVars, anchors, anchorsInsights, rejected, pendingInsights,
                   currentView, reviewIndex, reviewDecisions, advanceTimers,
                   overviewListeners, reviewListeners, keyHandlers, keyHandler,
                   container, summary>>

\* a keydown on the document: every keydown handler the document has
KeyDown(key) ==
    /\ dispatch.left = 0
    /\ keyHandlers > 0
    /\ currentView = "review"
    /\ WithinBounds(key, IF key = "Escape" THEN 1 ELSE keyHandlers)
    /\ dispatch' = [event |-> key, left |-> keyHandlers]
    /\ lastCall' = ReviewCall(key)
    /\ UNCHANGED <<resolverVars, panelVars, fetchVars, appVars, tabVars, similar,
                   viewVars, anchors, anchorsInsights, rejected, pendingInsights,
                   currentView, reviewIndex, reviewDecisions, advanceTimers,
                   overviewListeners, reviewListeners, keyHandlers, keyHandler,
                   container, summary>>

\* the next listener of the event being dispatched runs; nothing else runs
\* before the last one has
RunListener ==
    /\ dispatch.left > 0
    /\ \E edited \in (IF dispatch.event \in {"edit-and-approve", "e"}
                      THEN BOOLEAN ELSE {FALSE}) :
          Becomes(IF dispatch.event \in ReviewKeys
                  THEN KeyListener(Review, dispatch.event, edited)
                  ELSE ClickListener(Review, dispatch.event, edited))
    /\ dispatch' = IF dispatch.left = 1 THEN NoDispatch
                   ELSE [dispatch EXCEPT !.left = @ - 1]
    /\ UNCHANGED <<resolverVars, panelVars, fetchVars, appVars, tabVars, similar,
                   viewVars, anchors, anchorsInsights, rejected, lastCall>>

\* a timer set by a decision fires: navigateReview(1)
AdvanceFires ==
    /\ dispatch.left = 0
    /\ advanceTimers > 0
    /\ reviewListeners + 1 <= MaxListeners
    /\ Becomes([NavigateReview(Review, 1) EXCEPT !.advanceTimers = @ - 1])
    /\ UNCHANGED <<resolverVars, panelVars, fetchVars, appVars, tabVars, similar,
                   viewVars, anchors, anchorsInsights, rejected, lastCall, dispatch>>

\* insights.json as the module loads it: insights with an id and a
\* strength, one with neither, one with insight_id and confidence
ReviewInsightList ==
    <<JObj(<<<<P_id, Str(<<"i", "1">>)>>, <<P_strength, JNum(50)>>>>),
      JObj(<<<<P_content, Str(<<"t">>)>>>>),
      JObj(<<<<P_id, Str(<<"i", "2">>)>>, <<P_strength, JNum(90)>>>>),
      JObj(<<<<P_insight_id, Str(<<"i", "3">>)>>, <<P_confidence, JNum(70)>>>>)>>

ReviewInsights ==
    {SubSeq(ReviewInsightList, 1, n) :
        n \in 0..(IF MaxPending < Len(ReviewInsightList) THEN MaxPending
                  ELSE Len(ReviewInsightList))}

\* rejected-insights.json rejecting i1, or nothing
ReviewRejected == {<<>>, <<JObj(<<<<P_insight_id, Str(<<"i", "1">>)>>>>)>>}

\* the module after init(): the stores loaded, the pending insights
\* computed from them, the overview rendered
InitReview ==
    /\ anchors = <<>>
    /\ anchorsInsights \in ReviewInsights
    /\ rejected \in ReviewRejected
    /\ pendingInsights = CalculatePending(anchors, anchorsInsights, rejected).value
    /\ currentView = "overview"
    /\ reviewIndex = 0
    /\ reviewDecisions = <<>>
    /\ advanceTimers = 0
    /\ overviewListeners = 1
    /\ reviewListeners = 0
    /\ keyHandlers = 0
    /\ keyHandler = FALSE
    /\ container = [view |-> "overview", card |-> 0]
    /\ summary = NoSummary
    /\ dispatch = NoDispatch
    /\ insights = <<>>
    /\ conversations = <<>>
    /\ PanelInit
    /\ lastCall = NoCall
    /\ NothingFetched
    /\ similar = <<>>
    /\ ViewInit
    /\ AppCreated
    /\ TabsCreated

NextReview ==
    \/ \E action \in ReviewButtons \cup {"start-review"} : Click(action)
    \/ \E key \in ReviewKeys : KeyDown(key)
    \/ RunListener
    \/ AdvanceFires

SpecReview == InitReview /\ [][NextReview]_vars

----------------------------------------------------------------------------
(* Claim C22 *)

\* every listener of the last event has run and every advance has fired
Quiescent == dispatch.left = 0 /\ advanceTimers = 0

\* the last action of the user was an approve, a reject or a skip
DecisionTaken == lastCall.op \in DecisionEvents

\* C22: an approve, reject or skip taken while the cursor is on an insight
\* that is not the last one logs a decision for that insight and then moves
\* the cursor to the next insight, whose card is then displayed. (Once the
\* listeners have run and the advances have fired, with no other action of
\* the user since, the cursor is at index + 1 and the card shown is that
\* insight's.)
C22_AutoAdvance ==
    (/\ Quiescent
     /\ DecisionTaken
     /\ lastCall.insight < Len(pendingInsights) - 1)
    => /\ \E i \in 1..Len(reviewDecisions) :
             reviewDecisions[i].insightId =
                ReviewId(pendingInsights[lastCall.insight + 1], lastCall.insight)
       /\ reviewIndex = lastCall.insight + 1
       /\ container = [view |-> "review", card |-> lastCall.insight + 1]

----------------------------------------------------------------------------
(* Claim C23 *)

\* C23: after the last pending insight has been approved, rejected or
\* skipped the session finishes on its own: finishReview has run, the
\* completion summary is shown, currentView is 'overview' and the overview
\* is rendered. (Once the listeners have run and the advances have fired,
\* with no other action of the user since.)
C23_AutoFinish ==
    (/\ Quiescent
     /\ DecisionTaken
     /\ Len(pendingInsights) > 0
     /\ lastCall.insight = Len(pendingInsights) - 1)
    => /\ currentView = "overview"
       /\ summary = SummaryOf("finish", reviewDecisions)
       /\ container.view = "overview"

----------------------------------------------------------------------------
(* Claim C24 *)

\* the pending insights the stores give
PendingOfStores == CalculatePending(anchors, anchorsInsights, rejected).value

ReadOnlyStep ==
    /\ UNCHANGED <<anchors, anchorsInsights, rejected>>
    /\ Range(pendingInsights') = Range(pendingInsights)
    /\ Len(pendingInsights') = Len(pendingInsights)

\* C24: over any sequence of review actions the anchors, insights and
\* rejected collections are unchanged and the set of pending insights is
\* unchanged: every insight the stores leave pending is pending in every
\* state, whatever was decided about it.
C24_ReadOnly ==
    /\ [][ReadOnlyStep]_vars
    /\ [](Range(pendingInsights) = Range(PendingOfStores))

\* a second session has started after a session in which an insight was
\* approved or rejected: all the insights are pending again
C24_Witness ==
    /\ currentView = "review"
    /\ summary.kind = "exit"
    /\ summary.approved + summary.rejected > 0
    /\ reviewDecisions = <<>>
    /\ dispatch.left = 0
    /\ Len(pendingInsights) >= 3
    /\ pendingInsights = SortPending(PendingOfStores)
    /\ pendingInsights # PendingOfStores

----------------------------------------------------------------------------
(* Claim C25 *)

\* a listener of a click on start-review is about to run
StartRuns == dispatch.event = "start-review" /\ dispatch' # dispatch

CursorStep ==
    /\ StartRuns => (reviewIndex' = 0 /\ currentView' = "review")
    /\ reviewIndex' # reviewIndex =>
          \/ StartRuns
          \/ reviewIndex' - reviewIndex \in {1, -1}

\* C25: in every reachable state of a review session
\* 0 <= reviewIndex < pendingInsights.length, startReview sets reviewIndex
\* to 0, and each change of reviewIndex is by exactly +1 or -1.
C25_CursorInBounds ==
    /\ [](currentView = "review" => Len(pendingInsights) > 0)
    /\ [](Len(pendingInsights) > 0 =>
             (reviewIndex >= 0 /\ reviewIndex < Len(pendingInsights)))
    /\ [][CursorStep]_vars

\* the cursor has come to the last insight by an advance and has gone one
\* back by a click on Previous
C25_Witness ==
    /\ currentView = "review"
    /\ lastCall.op = "prev-insight"
    /\ lastCall.insight = Len(pendingInsights) - 1
    /\ reviewIndex = Len(pendingInsights) - 2
    /\ Len(reviewDecisions) > 0
    /\ Quiescent

----------------------------------------------------------------------------
(* Claim C26 *)

AfterExit ==
    (currentView = "overview" /\ currentView' = "overview")
    => (reviewIndex' = reviewIndex /\ container'.view # "review")

\* C26: once exitReview has run, the review interface is not rendered and
\* reviewIndex does not change until startReview runs again, even if the
\* advance of a decision is still pending.
C26_NoAdvanceAfterExit == [][AfterExit]_vars

----------------------------------------------------------------------------
(* Claim C27 *)

\* C27: a click on a button of the review interface invokes its handler
\* exactly once, however many times the review interface was rendered on
\* the container before: one listener is reached.
C27_OneHandlerPerClick ==
    dispatch.event \in ReviewButtons => dispatch.left <= 1

----------------------------------------------------------------------------
(* Claim C28 *)

\* C28: reviewDecisions holds at most one decision per insight, and the
\* counts of a summary never add up to more than the number of pending
\* insights.
C28_OneDecisionPerInsight ==
    /\ \A i, j \in 1..Len(reviewDecisions) :
          i # j => reviewDecisions[i].insightId # reviewDecisions[j].insightId
    /\ summary.approved + summary.rejected + summary.skipped <= Len(pendingInsights)

----------------------------------------------------------------------------
(* Claim C29 *)

\* C29: InsightsModule.render never runs before loadData of the module has
\* completed, and once loading has completed and the insights tab is the
\* active tab, isRendered is true and the views show the loaded insights.
C29_RenderedFromLoaded ==
    /\ renderedViews.state # "early"
    /\ (insightsModule = "ready" /\ activeTab = "insights") =>
          /\ isRendered
          /\ renderedViews = [state |-> "loaded", insights |-> insights]

----------------------------------------------------------------------------
(* Claim C30 *)

\* C30: whenever the header of the sortable column currentSortColumn carries
\* the direction class, the rows the table shows are ordered by that column
\* in currentSortDirection, after any sequence of header clicks and changes
\* of the search box and of the two filters.
C30_RowsFollowHeader ==
    (/\ markedHeader.column \in SortableColumns
     /\ markedHeader.column = currentSortColumn
     /\ markedHeader.direction = currentSortDirection)
    => OrderedBy(tableRows, currentSortColumn, currentSortDirection)

====
